---- MODULE Spec2Model ----
(***************************************************************************)
(* A model of the timefy library: the Timex period boundaries, the         *)
(* tolerant parser with component back-fill, and the calendar helpers.     *)
(*                                                                         *)
(* A time.Time is a record [day, sod, ns, loc]: the instant as days since  *)
(* 1970-01-01 UTC, the second of that UTC day and the nanosecond, plus the *)
(* location whose offset turns the instant into wall-clock fields.         *)
(***************************************************************************)
EXTENDS Integers, Sequences, FiniteSets

VARIABLES
  wrapped,         \* Timex.Time: the wrapped timestamp
  weekStartDay,    \* Rule.weekStartDay, 0 (Sunday) .. 6 (Saturday)
  timeLocation,    \* Rule.timeLocation: a location, or NilLocation
  timeFormats,     \* Rule.timeFormats: the ordered layouts
  op,              \* the operation that ran last ("" before any)
  res,             \* the timestamp that operation returned
  pc,              \* position in Timex.Parse: "idle", "loop" or "done"
  caller,          \* "Parse" or "MustParse"
  cands,           \* the candidate strings s ...string
  idx,             \* index of the next candidate of the range loop
  setCurrentTime,  \* Parse local
  onlyTimeInStr,   \* Parse local
  currentTime,     \* Parse local: FormatTimex of the running reference
  currentLocation, \* Parse local
  value,           \* Parse named result
  err,             \* Parse named result: NilErr is nil
  merged,          \* history: the loop's last pass and the last value it merged
  panicked,        \* the value a panic carried (NilErr when none)
  orig,            \* the timestamp FormatRFC rendered
  weekdays,        \* the slice GetWeekdaysInRange returned, with its inputs
  now,             \* what time.Now() read in the last call that asked
  arg,             \* the argument of the last call that took one
  store,           \* the backing arrays of the layout slices, by number
  defaults,        \* the package variables WeekStartDay and TimeFormats
  rules,           \* the timeFormats slice of every Rule made by NewRule
  running          \* per goroutine, the call in flight and how far it got

vars == <<wrapped, weekStartDay, timeFormats, op, res, pc, caller, cands, idx,
          setCurrentTime, onlyTimeInStr, currentTime, currentLocation, value,
          err, merged, panicked, orig, weekdays, timeLocation, now, arg,
          store, defaults, rules, running>>

\* What SpecShare and SpecUse add to the state.
heap == <<store, defaults, rules, running>>

-----------------------------------------------------------------------------
(* Units of the time package.                                              *)

SecondsPerMinute == 60
SecondsPerHour == 3600
SecondsPerDay == 86400
NanosPerSecond == 1000000000

Sunday == 0
Saturday == 6

February == 2

\* F(e), with e evaluated once however often F uses it.
Let(e, F(_)) == CHOOSE r \in {F(x) : x \in {e}} : TRUE

-----------------------------------------------------------------------------
(* The civil calendar, as time.Date and Time.Date() compute it.            *)

\* A variant with the Julian rule: every fourth year.
IsLeapYear_Julian(year) == year % 4 = 0

\* IsLeapYear(year)
IsLeapYear(year) == year % 4 = 0 /\ (year % 100 # 0 \/ year % 400 = 0)

DaysBefore == <<0, 31, 59, 90, 120, 151, 181, 212, 243, 273, 304, 334>>

\* Leap years in 1 .. y (negative when y < 0: the count runs backwards).
LeapsThrough(y) == (y \div 4) - (y \div 100) + (y \div 400)

\* Days from 1970-01-01 to the 1st of January of year y.
DaysSinceEpoch(y) == 365 * (y - 1970) + LeapsThrough(y - 1) - LeapsThrough(1969)

\* Days from 1970-01-01 to y-m-d; m in 1..12, d any integer (overflow runs on).
DaysFromCivil(y, m, d) ==
  DaysSinceEpoch(y) + DaysBefore[m]
    + (IF IsLeapYear(y) /\ m > February THEN 1 ELSE 0) + d - 1

DaysIn(m, y) ==
  IF m = February THEN (IF IsLeapYear(y) THEN 29 ELSE 28)
  ELSE IF m \in {4, 6, 9, 11} THEN 30 ELSE 31

\* The civil date of day number z.
CivilFromDays(z) ==
  Let(z + 719468, LAMBDA z1 :
  LET era == z1 \div 146097
      doe == z1 - era * 146097
      yoe == (doe - (doe \div 1460) + (doe \div 36524) - (doe \div 146096)) \div 365
      doy == doe - (365 * yoe + (yoe \div 4) - (yoe \div 100))
      mp == (5 * doy + 2) \div 153
      d == doy - ((153 * mp + 2) \div 5) + 1
      m == IF mp < 10 THEN mp + 3 ELSE mp - 9
  IN [year |-> yoe + era * 400 + (IF m <= 2 THEN 1 ELSE 0), month |-> m, day |-> d])

\* Weekday of day number z: 1970-01-01 was a Thursday.
WeekdayOfDay(z) == (z + 4) % 7

-----------------------------------------------------------------------------
(* Locations.  "UTC"; "Local", the fixed +07:00 zone of the README's       *)
(* output; "NewYork" (DefaultTimezoneNewYork), whose offset changes twice  *)
(* a year: -05:00, and -04:00 from the second Sunday of March 07:00 UTC to *)
(* the first Sunday of November 06:00 UTC; "Cairo" (DefaultTimezoneCairo), *)
(* +02:00, and +03:00 from the last Friday of April, whose hour from       *)
(* midnight to 01:00 is skipped, to the end of the last Thursday of        *)
(* October.                                                                *)

Locations == {"UTC", "Local", "NewYork", "Cairo"}

\* The first Sunday on or after y-m-d, as a day number.
SundayOnOrAfter(y, m, d) ==
  Let(DaysFromCivil(y, m, d), LAMBDA first : first + ((7 - WeekdayOfDay(first)) % 7))

\* The last day of weekday wd on or before y-m-d, as a day number.
WeekdayOnOrBefore(y, m, d, wd) ==
  Let(DaysFromCivil(y, m, d), LAMBDA last : last - ((WeekdayOfDay(last) - wd + 7) % 7))

\* Is the instant (day, sod) at or after the instant (day2, sod2)?
NotBefore(day, sod, day2, sod2) == day > day2 \/ (day = day2 /\ sod >= sod2)

\* Which stretch of constant offset the instant falls in: 2y before the
\* spring transition of UTC year y, 2y+1 until the autumn one, 2y+2 after it
\* (the stretch that runs on into year y+1).  NewYork changes on the second
\* Sunday of March at 07:00 UTC and the first Sunday of November at 06:00
\* UTC; Cairo at local midnight of the last Friday of April, 22:00 UTC of the
\* Thursday before, and at the end of the last Thursday of October, 21:00 UTC.
ZonePeriod(loc, day, sod) ==
  IF loc \notin {"NewYork", "Cairo"} THEN 0
  ELSE Let(CivilFromDays(day).year, LAMBDA y :
         IF loc = "NewYork"
           THEN IF ~NotBefore(day, sod, SundayOnOrAfter(y, 3, 8), 7 * SecondsPerHour)
                  THEN 2 * y
                ELSE IF ~NotBefore(day, sod, SundayOnOrAfter(y, 11, 1), 6 * SecondsPerHour)
                  THEN 2 * y + 1
                ELSE 2 * y + 2
           ELSE IF ~NotBefore(day, sod, WeekdayOnOrBefore(y, 4, 30, 5) - 1,
                              22 * SecondsPerHour)
                  THEN 2 * y
                ELSE IF ~NotBefore(day, sod, WeekdayOnOrBefore(y, 10, 31, 4),
                                   21 * SecondsPerHour)
                  THEN 2 * y + 1
                ELSE 2 * y + 2)

\* time.FixedZone: the locations Parse makes up for an offset that is not
\* the one of the location it was given, by name, with their seconds east of
\* UTC.
FixedZones ==
  [n \in {"-05:00", "+09:00"} |->
     IF n = "-05:00" THEN -5 * SecondsPerHour ELSE 9 * SecondsPerHour]

FixedZone(offset) == CHOOSE n \in DOMAIN FixedZones : FixedZones[n] = offset

\* Location.lookup: seconds east of UTC in force at the instant.
ZoneOffset(loc, day, sod) ==
  IF loc \in DOMAIN FixedZones THEN FixedZones[loc]
  ELSE IF loc = "UTC" THEN 0
  ELSE IF loc = "Local" THEN 7 * SecondsPerHour
  ELSE IF loc = "NewYork"
    THEN IF ZonePeriod(loc, day, sod) % 2 = 1 THEN -4 * SecondsPerHour
         ELSE -5 * SecondsPerHour
  ELSE IF ZonePeriod(loc, day, sod) % 2 = 1 THEN 3 * SecondsPerHour
       ELSE 2 * SecondsPerHour

-----------------------------------------------------------------------------
(* time.Time.                                                              *)

\* The instant `secs` seconds after 00:00 of day number `day`.
Instant(day, secs, ns, loc) ==
  [day |-> day + (secs \div SecondsPerDay), sod |-> secs % SecondsPerDay,
   ns |-> ns, loc |-> loc]

\* The wall clock of t in its location, as a day number and second of day.
Wall(t) ==
  Let(t.sod + ZoneOffset(t.loc, t.day, t.sod), LAMBDA s :
    [day |-> t.day + (s \div SecondsPerDay), sod |-> s % SecondsPerDay])

Year(t) == CivilFromDays(Wall(t).day).year
Month(t) == CivilFromDays(Wall(t).day).month
Day(t) == CivilFromDays(Wall(t).day).day
Hour(t) == Wall(t).sod \div SecondsPerHour
Minute(t) == (Wall(t).sod % SecondsPerHour) \div SecondsPerMinute
Second(t) == Wall(t).sod % SecondsPerMinute
Nanosecond(t) == t.ns
Weekday(t) == WeekdayOfDay(Wall(t).day)
Location(t) == t.loc

\* time.Date, first half: the fields <<year, month, day, hour, min, sec, nsec>>
\* normalised, as the instant they would be in UTC.
Normalised(f) ==
  LET m0 == f[2] - 1
      y1 == f[1] + (m0 \div 12)
      m1 == (m0 % 12) + 1
      s1 == f[6] + (f[7] \div NanosPerSecond)
      ns1 == f[7] % NanosPerSecond
      mi1 == f[5] + (s1 \div SecondsPerMinute)
      s2 == s1 % SecondsPerMinute
      h1 == f[4] + (mi1 \div 60)
      mi2 == mi1 % 60
      d1 == f[3] + (h1 \div 24)
      h2 == h1 % 24
  IN Instant(DaysFromCivil(y1, m1, d1),
             h2 * SecondsPerHour + mi2 * SecondsPerMinute + s2, ns1, "UTC")

\* time.Date, second half: the instant whose wall clock in loc is that of
\* unix in UTC.  The offset is looked up as if the wall clock were UTC and
\* looked up again at the corrected instant when that leaves the stretch.
Resolved(unix, loc) ==
  Let(ZoneOffset(loc, unix.day, unix.sod), LAMBDA off1 :
    LET utc == Instant(unix.day, unix.sod - off1, unix.ns, loc)
        offset == IF off1 # 0 /\ ZonePeriod(loc, utc.day, utc.sod)
                                   # ZonePeriod(loc, unix.day, unix.sod)
                  THEN ZoneOffset(loc, utc.day, utc.sod) ELSE off1
    IN Instant(unix.day, unix.sod - offset, unix.ns, loc))

\* time.Date
Date(year, month, day, hour, min, sec, nsec, loc) ==
  Let(Let(<<year, month, day, hour, min, sec, nsec>>, Normalised),
      LAMBDA unix : Resolved(unix, loc))

\* The zero time.Time: January 1, year 1, 00:00:00 UTC.
ZeroTime == Date(1, 1, 1, 0, 0, 0, 0, "UTC")

\* Time.Add of a duration given as whole seconds plus nanoseconds.
Add(t, secs, nanos) ==
  Let(t, LAMBDA u :
    LET n == u.ns + nanos
    IN Instant(u.day, u.sod + secs + (n \div NanosPerSecond), n % NanosPerSecond, u.loc))

\* Time.AddDate
AddDate(t, years, months, days) ==
  Let(t, LAMBDA u :
    Date(Year(u) + years, Month(u) + months, Day(u) + days,
         Hour(u), Minute(u), Second(u), Nanosecond(u), Location(u)))

\* Time.Truncate(d) for a whole number d of seconds dividing a day: rounds
\* the absolute time down, whatever the location.
Truncate(t, d) == Let(t, LAMBDA u : [u EXCEPT !.sod = u.sod - (u.sod % d), !.ns = 0])

Before(a, b) ==
  \/ a.day < b.day
  \/ a.day = b.day /\ a.sod < b.sod
  \/ a.day = b.day /\ a.sod = b.sod /\ a.ns < b.ns

After(a, b) == Before(b, a)

Equal(a, b) == a.day = b.day /\ a.sod = b.sod /\ a.ns = b.ns

\* a.Sub(b) as [sec, ns] with 0 <= ns < 1e9.
Sub(a, b) ==
  LET s == (a.day - b.day) * SecondsPerDay + (a.sod - b.sod)
      n == a.ns - b.ns
  IN [sec |-> s + (n \div NanosPerSecond), ns |-> n % NanosPerSecond]

-----------------------------------------------------------------------------
(* Timex: the period boundaries.  Each takes the wrapped time t and, where *)
(* the Rule matters, its week start day.                                   *)

BeginningOfMinute(t) == Truncate(t, SecondsPerMinute)

BeginningOfHour(t) == Date(Year(t), Month(t), Day(t), Hour(t), 0, 0, 0, Location(t))

BeginningOfDay(t) == Date(Year(t), Month(t), Day(t), 0, 0, 0, 0, Location(t))

\* A variant that always counts back to Sunday, whatever the Rule says.
BeginningOfWeek_SundayStart(t, wsd) ==
  Let(BeginningOfDay(t), LAMBDA day : AddDate(day, 0, 0, -Weekday(day)))

BeginningOfWeek(t, wsd) ==
  Let(BeginningOfDay(t), LAMBDA day :
    LET weekday == Weekday(day)
        back == IF wsd # Sunday
                THEN (IF weekday < wsd THEN weekday + 7 - wsd ELSE weekday - wsd)
                ELSE weekday
    IN AddDate(day, 0, 0, -back))

\* A variant that zeroes the clock but keeps the day of the month.
BeginningOfMonth_SameDay(t) == Date(Year(t), Month(t), Day(t), 0, 0, 0, 0, Location(t))

BeginningOfMonth(t) == Date(Year(t), Month(t), 1, 0, 0, 0, 0, Location(t))

BeginningOfQuarter(t) ==
  Let(BeginningOfMonth(t), LAMBDA month :
    LET offset == (Month(month) - 1) % 3
    IN AddDate(month, 0, -offset, 0))

\* A variant that counts back within the quarter, not the half.
BeginningOfHalf_OfQuarter(t) ==
  Let(BeginningOfMonth(t), LAMBDA month :
    LET offset == (Month(month) - 1) % 3
    IN AddDate(month, 0, -offset, 0))

BeginningOfHalf(t) ==
  Let(BeginningOfMonth(t), LAMBDA month :
    LET offset == (Month(month) - 1) % 6
    IN AddDate(month, 0, -offset, 0))

BeginningOfYear(t) == Date(Year(t), 1, 1, 0, 0, 0, 0, Location(t))

EndOfMinute(t) == Add(BeginningOfMinute(t), SecondsPerMinute - 1, NanosPerSecond - 1)

EndOfHour(t) == Add(BeginningOfHour(t), SecondsPerHour - 1, NanosPerSecond - 1)

\* A variant that stops at 23:59:59.000000000, as EndOfDayX does.
EndOfDay_WholeSecond(t) == Date(Year(t), Month(t), Day(t), 23, 59, 59, 0, Location(t))

EndOfDay(t) == Date(Year(t), Month(t), Day(t), 23, 59, 59, NanosPerSecond - 1, Location(t))

EndOfWeek(t, wsd) == Add(AddDate(BeginningOfWeek(t, wsd), 0, 0, 7), 0, -1)

EndOfMonth(t) == Add(AddDate(BeginningOfMonth(t), 0, 1, 0), 0, -1)

EndOfQuarter(t) == Add(AddDate(BeginningOfQuarter(t), 0, 3, 0), 0, -1)

EndOfHalf(t) == Add(AddDate(BeginningOfHalf(t), 0, 6, 0), 0, -1)

EndOfYear(t) == Add(AddDate(BeginningOfYear(t), 1, 0, 0), 0, -1)

\* Timex.Monday from the assignment of weekday on; parseTime is
\* BeginningOfDay() when the method is called without arguments.
TimexMonday(parseTime) ==
  Let(parseTime, LAMBDA p :
    LET weekday == IF Weekday(p) = 0 THEN 7 ELSE Weekday(p)
    IN AddDate(p, 0, 0, -weekday + 1))

\* A variant without the step that turns Sunday's 0 into 7.
TimexSunday_SundayIsZero(parseTime) ==
  Let(parseTime, LAMBDA p : AddDate(p, 0, 0, 7 - Weekday(p)))

\* Timex.Sunday from the assignment of weekday on.
TimexSunday(parseTime) ==
  Let(parseTime, LAMBDA p :
    LET weekday == IF Weekday(p) = 0 THEN 7 ELSE Weekday(p)
    IN AddDate(p, 0, 0, 7 - weekday))

EndOfSunday(t) == EndOfDay(TimexSunday(BeginningOfDay(t)))

\* A variant that numbers the quarters from zero.
Quarter_FromZero(t) == (Month(t) - 1) \div 3

Quarter(t) == ((Month(t) - 1) \div 3) + 1

-----------------------------------------------------------------------------
(* Text.  A string is a sequence of one-character strings.                 *)

DigitChars == <<"0", "1", "2", "3", "4", "5", "6", "7", "8", "9">>

IsDigit(c) == \E i \in 1..10 : DigitChars[i] = c

DigitVal(c) == (CHOOSE i \in 1..10 : DigitChars[i] = c) - 1

\* \s of the regular expressions
IsSpace(c) == c = " "

Drop(v, n) == SubSeq(v, n + 1, Len(v))

\* isDigit(s, i) of the time package, i counted from 1
IsDigitAt(v, i) == i <= Len(v) /\ IsDigit(v[i])

AllDigits(v, from, to) == to <= Len(v) /\ \A k \in from..to : IsDigit(v[k])

\* The number the digits v[from..to] write.
RECURSIVE Atoi(_, _, _)
Atoi(v, from, to) ==
  IF to < from THEN 0 ELSE Atoi(v, from, to - 1) * 10 + DigitVal(v[to])

ShortMonthNames ==
  <<<<"J", "a", "n">>, <<"F", "e", "b">>, <<"M", "a", "r">>, <<"A", "p", "r">>,
    <<"M", "a", "y">>, <<"J", "u", "n">>, <<"J", "u", "l">>, <<"A", "u", "g">>,
    <<"S", "e", "p">>, <<"O", "c", "t">>, <<"N", "o", "v">>, <<"D", "e", "c">>>>

ShortDayNames ==
  <<<<"S", "u", "n">>, <<"M", "o", "n">>, <<"T", "u", "e">>, <<"W", "e", "d">>,
    <<"T", "h", "u">>, <<"F", "r", "i">>, <<"S", "a", "t">>>>

-----------------------------------------------------------------------------
(* ApplyTimeRegexp and OnlyTimeRegexp, which Parse uses under the names    *)
(* TimeFormatRegexp and TimeOnlyRegexp.  Positions are 1-based; an end     *)
(* position is the position after the last character matched.              *)

\* \d{1,2} starting at p: where it can end.
DigitPair(s, p) == {q \in {p + 1, p + 2} : AllDigits(s, p, q - 1)}

\* :\d{1,2} starting at one of P.
ColonDigits(s, P) ==
  UNION {IF p <= Len(s) /\ s[p] = ":" THEN DigitPair(s, p + 1) ELSE {} : p \in P}

\* (:\d{1,2})* starting at one of P.
RECURSIVE ColonDigitsStar(_, _)
ColonDigitsStar(s, P) ==
  Let(P \cup ColonDigits(s, P), LAMBDA Q : IF Q = P THEN P ELSE ColonDigitsStar(s, Q))

\* \.(\d{3}|\d{6}|\d{9}) starting at one of P.
Fraction(s, P) ==
  UNION {IF p <= Len(s) /\ s[p] = "."
         THEN {p + 1 + n : n \in {k \in {3, 6, 9} : AllDigits(s, p + 1, p + k)}}
         ELSE {} : p \in P}

\* \d{1,2}((:\d{1,2})*|((:\d{1,2}){2}\.(\d{3}|\d{6}|\d{9}))) starting at p.
ClockEnds(s, p) ==
  Let(DigitPair(s, p), LAMBDA D :
    ColonDigitsStar(s, D) \cup Fraction(s, ColonDigits(s, ColonDigits(s, D))))

SpacesOnly(s, from, to) == \A k \in from..to : IsSpace(s[k])

\* (\s+|^\s*|T)...(\s*$|[Z+-]), found anywhere in s
ApplyTimeRegexp(s) ==
  \E p \in 1..Len(s) :
    /\ \/ p > 1 /\ (IsSpace(s[p - 1]) \/ s[p - 1] = "T")
       \/ SpacesOnly(s, 1, p - 1)
    /\ \E q \in ClockEnds(s, p) :
         \/ SpacesOnly(s, q, Len(s))
         \/ q <= Len(s) /\ s[q] \in {"Z", "+", "-"}

\* ^\s*...\s*$
OnlyTimeRegexp(s) ==
  \E p \in 1..Len(s) :
    /\ SpacesOnly(s, 1, p - 1)
    /\ \E q \in ClockEnds(s, p) : SpacesOnly(s, q, Len(s))

-----------------------------------------------------------------------------
(* time.Parse and Time.Format.  A layout is the sequence of its chunks:    *)
(* the reference-time elements ("2006", "01", "1", "Jan", "Mon", "02",     *)
(* "2", "_2", "15", "3", "04", "4", "05", "5", "PM", ".999999999", ".000") *)
(* and, between them, the literal characters one by one.  No layout here   *)
(* holds two spaces in a row, and names are matched in their own case.     *)

StdChunks == {"2006", "01", "1", "Jan", "Mon", "02", "2", "_2", "15", "3", "04",
              "4", "05", "5", "PM", ".999999999", ".000", "Z0700", "Z07", "Z07:00"}

FracChunks == {".999999999", ".000"}

\* The next reference-time element of the layout from position k on ("" if none).
NextStdChunk(layout, k) ==
  LET K == {j \in k..Len(layout) : layout[j] \in StdChunks}
  IN IF K = {} THEN "" ELSE layout[CHOOSE j \in K : \A i \in K : j <= i]

\* getnum: one or two digits, exactly two when fixed.
GetNum(v, fixed) ==
  IF ~IsDigitAt(v, 1) \/ (fixed /\ ~IsDigitAt(v, 2)) THEN [ok |-> FALSE, n |-> 0, rest |-> v]
  ELSE IF ~IsDigitAt(v, 2) THEN [ok |-> TRUE, n |-> DigitVal(v[1]), rest |-> Drop(v, 1)]
  ELSE [ok |-> TRUE, n |-> Atoi(v, 1, 2), rest |-> Drop(v, 2)]

RECURSIVE CutSpace(_)
CutSpace(v) == IF Len(v) > 0 /\ v[1] = " " THEN CutSpace(Drop(v, 1)) ELSE v

RECURSIVE Pow10(_)
Pow10(n) == IF n = 0 THEN 1 ELSE 10 * Pow10(n - 1)

\* How many digits follow position 1 of v (the '.' or ',').
RECURSIVE DigitsAfter(_, _)
DigitsAfter(v, n) == IF IsDigitAt(v, n + 2) THEN DigitsAfter(v, n + 1) ELSE n

\* parseNanoseconds of v[1..1+n]: '.' or ',' and n digits, of which nine count.
ParseNanoseconds(v, n) ==
  LET m == IF n > 9 THEN 9 ELSE n
  IN Atoi(v, 2, 1 + m) * Pow10(9 - m)

CommaOrPeriod(c) == c \in {".", ","}

HasFraction(v) == Len(v) >= 2 /\ CommaOrPeriod(v[1]) /\ IsDigitAt(v, 2)

\* The fields Parse collects, with what is left of the value.
ParseStart(v) ==
  [ok |-> TRUE, v |-> v, year |-> 0, month |-> -1, day |-> -1, hour |-> 0, min |-> 0,
   sec |-> 0, nsec |-> 0, pmSet |-> FALSE, amSet |-> FALSE, z |-> "", zoneOffset |-> -1]

Bad(st) == [st EXCEPT !.ok = FALSE]

\* One pass of Parse's loop: chunk k of the layout against the value left.
ParseChunk(layout, k, st) ==
  LET e == layout[k]
      v == st.v
      free == GetNum(v, FALSE)
      fixed == GetNum(v, TRUE)
  IN CASE e = "2006" ->
            IF AllDigits(v, 1, 4)
            THEN [st EXCEPT !.year = Atoi(v, 1, 4), !.v = Drop(v, 4)] ELSE Bad(st)
       [] e \in {"1", "01"} ->
            LET g == IF e = "01" THEN fixed ELSE free
            IN IF g.ok /\ g.n >= 1 /\ g.n <= 12
               THEN [st EXCEPT !.month = g.n, !.v = g.rest] ELSE Bad(st)
       [] e = "Jan" ->
            IF Len(v) >= 3 /\ \E i \in 1..12 : ShortMonthNames[i] = SubSeq(v, 1, 3)
            THEN [st EXCEPT !.month = CHOOSE i \in 1..12 : ShortMonthNames[i] = SubSeq(v, 1, 3),
                            !.v = Drop(v, 3)]
            ELSE Bad(st)
       [] e = "Mon" ->
            IF Len(v) >= 3 /\ \E i \in 1..7 : ShortDayNames[i] = SubSeq(v, 1, 3)
            THEN [st EXCEPT !.v = Drop(v, 3)] ELSE Bad(st)
       [] e \in {"2", "02", "_2"} ->
            LET v1 == IF e = "_2" /\ Len(v) > 0 /\ v[1] = " " THEN Drop(v, 1) ELSE v
                g == GetNum(v1, e = "02")
            IN IF g.ok THEN [st EXCEPT !.day = g.n, !.v = g.rest] ELSE Bad(st)
       [] e = "15" ->
            IF free.ok /\ free.n < 24
            THEN [st EXCEPT !.hour = free.n, !.v = free.rest] ELSE Bad(st)
       [] e = "3" ->
            IF free.ok /\ free.n <= 12
            THEN [st EXCEPT !.hour = free.n, !.v = free.rest] ELSE Bad(st)
       [] e \in {"4", "04"} ->
            LET g == IF e = "04" THEN fixed ELSE free
            IN IF g.ok /\ g.n < 60 THEN [st EXCEPT !.min = g.n, !.v = g.rest] ELSE Bad(st)
       [] e \in {"5", "05"} ->
            LET g == IF e = "05" THEN fixed ELSE free
                \* a fraction in the value that the layout does not ask for
                n == DigitsAfter(g.rest, 0)
            IN IF ~(g.ok /\ g.n < 60) THEN Bad(st)
               ELSE IF HasFraction(g.rest) /\ NextStdChunk(layout, k + 1) \notin FracChunks
                 THEN [st EXCEPT !.sec = g.n, !.nsec = ParseNanoseconds(g.rest, n),
                                 !.v = Drop(g.rest, 1 + n)]
               ELSE [st EXCEPT !.sec = g.n, !.v = g.rest]
       [] e = "PM" ->
            IF Len(v) >= 2 /\ SubSeq(v, 1, 2) = <<"P", "M">>
              THEN [st EXCEPT !.pmSet = TRUE, !.v = Drop(v, 2)]
            ELSE IF Len(v) >= 2 /\ SubSeq(v, 1, 2) = <<"A", "M">>
              THEN [st EXCEPT !.amSet = TRUE, !.v = Drop(v, 2)]
            ELSE Bad(st)
       [] e = ".999999999" ->
            LET n == DigitsAfter(v, 0)
            IN IF ~HasFraction(v) THEN st
               ELSE [st EXCEPT !.nsec = ParseNanoseconds(v, n), !.v = Drop(v, 1 + n)]
       [] e = ".000" ->
            IF Len(v) >= 4 /\ CommaOrPeriod(v[1]) /\ AllDigits(v, 2, 4)
            THEN [st EXCEPT !.nsec = ParseNanoseconds(v, 3), !.v = Drop(v, 4)] ELSE Bad(st)
       [] e \in {"Z0700", "Z07", "Z07:00"} ->
            IF Len(v) >= 1 /\ v[1] = "Z" THEN [st EXCEPT !.z = "UTC", !.v = Drop(v, 1)]
            ELSE LET need == CASE e = "Z07:00" -> 6 [] e = "Z0700" -> 5 [] OTHER -> 3
                     at == IF e = "Z07:00" THEN 5 ELSE 4
                 IN IF Len(v) < need \/ (e = "Z07:00" /\ v[4] # ":") THEN Bad(st)
                    ELSE IF ~AllDigits(v, 2, 3) \/ (e # "Z07" /\ ~AllDigits(v, at, at + 1))
                      THEN Bad(st)
                    ELSE LET hr == Atoi(v, 2, 3)
                             mm == IF e = "Z07" THEN 0 ELSE Atoi(v, at, at + 1)
                             secs == (hr * 60 + mm) * 60
                         IN IF hr > 24 \/ mm > 60 \/ v[1] \notin {"+", "-"} THEN Bad(st)
                            ELSE [st EXCEPT !.zoneOffset = IF v[1] = "-" THEN -secs ELSE secs,
                                            !.v = Drop(v, need)]
       [] e = " " ->
            IF Len(v) > 0 /\ v[1] # " " THEN Bad(st) ELSE [st EXCEPT !.v = CutSpace(v)]
       [] OTHER ->
            IF Len(v) > 0 /\ v[1] = e THEN [st EXCEPT !.v = Drop(v, 1)] ELSE Bad(st)

\* Parse's loop from chunk k on; text left over at the end is an error.
RECURSIVE ParseChunks(_, _, _)
ParseChunks(layout, k, st) ==
  Let(st, LAMBDA cur :
    IF ~cur.ok THEN cur
    ELSE IF k > Len(layout) THEN (IF Len(cur.v) = 0 THEN cur ELSE Bad(cur))
    ELSE ParseChunks(layout, k + 1, ParseChunk(layout, k, cur)))

\* time.ParseInLocation: [ok, t], t the zero Time when the value does not parse.
ParseInLocation(layout, str, loc) ==
  Let(ParseChunks(layout, 1, ParseStart(str)), LAMBDA st :
    LET hour == IF st.pmSet /\ st.hour < 12 THEN st.hour + 12
                ELSE IF st.amSet /\ st.hour = 12 THEN 0 ELSE st.hour
        month == IF st.month < 0 THEN 1 ELSE st.month
        day == IF st.day < 0 THEN 1 ELSE st.day
    IN IF st.ok /\ day >= 1 /\ day <= DaysIn(month, st.year)
       THEN [ok |-> TRUE,
             t |-> IF st.z # "" THEN Date(st.year, month, day, hour, st.min, st.sec, st.nsec, st.z)
                   ELSE IF st.zoneOffset # -1
                     THEN Let(Add(Date(st.year, month, day, hour, st.min, st.sec, st.nsec, "UTC"),
                                  -st.zoneOffset, 0), LAMBDA u :
                            IF ZoneOffset(loc, u.day, u.sod) = st.zoneOffset
                              THEN [u EXCEPT !.loc = loc]
                            ELSE [u EXCEPT !.loc = FixedZone(st.zoneOffset)])
                   ELSE Date(st.year, month, day, hour, st.min, st.sec, st.nsec, loc)]
       ELSE [ok |-> FALSE, t |-> ZeroTime])

\* n in 0..99 as two digits.
Pad2(n) == <<DigitChars[(n \div 10) + 1], DigitChars[(n % 10) + 1]>>

\* n in 0..99 without padding.
Num(n) == IF n < 10 THEN <<DigitChars[n + 1]>> ELSE Pad2(n)

\* n in 0..9999 as four digits.
Pad4(n) == Pad2(n \div 100) \o Pad2(n % 100)

\* The first `digits` digits of the nine that write the nanosecond ns.
RECURSIVE FracDigits(_, _)
FracDigits(ns, digits) ==
  IF digits = 0 THEN <<>>
  ELSE FracDigits(ns, digits - 1) \o <<DigitChars[((ns \div Pow10(9 - digits)) % 10) + 1]>>

\* How many of the nine digits are left once the trailing zeros are cut.
RECURSIVE Significant(_, _)
Significant(ns, digits) ==
  IF digits = 0 \/ (ns \div Pow10(9 - digits)) % 10 # 0 THEN digits
  ELSE Significant(ns, digits - 1)

\* What Format appends for one chunk.
FormatChunk(e, t) ==
  CASE e = "2006" -> Pad4(Year(t))
    [] e = "01" -> Pad2(Month(t))
    [] e = "1" -> Num(Month(t))
    [] e = "Jan" -> ShortMonthNames[Month(t)]
    [] e = "Mon" -> ShortDayNames[Weekday(t) + 1]
    [] e = "02" -> Pad2(Day(t))
    [] e = "2" -> Num(Day(t))
    [] e = "_2" -> IF Day(t) < 10 THEN <<" ">> \o Num(Day(t)) ELSE Pad2(Day(t))
    [] e = "15" -> Pad2(Hour(t))
    [] e = "3" -> Num(IF Hour(t) % 12 = 0 THEN 12 ELSE Hour(t) % 12)
    [] e = "04" -> Pad2(Minute(t))
    [] e = "4" -> Num(Minute(t))
    [] e = "05" -> Pad2(Second(t))
    [] e = "5" -> Num(Second(t))
    [] e = "PM" -> IF Hour(t) >= 12 THEN <<"P", "M">> ELSE <<"A", "M">>
    [] e = ".999999999" ->
         IF Nanosecond(t) = 0 THEN <<>>
         ELSE <<".">> \o FracDigits(Nanosecond(t), Significant(Nanosecond(t), 9))
    [] e = ".000" -> <<".">> \o FracDigits(Nanosecond(t), 3)
    [] e \in {"Z0700", "Z07", "Z07:00"} ->
         Let(ZoneOffset(t.loc, t.day, t.sod) \div 60, LAMBDA zone :
           LET abs == IF zone < 0 THEN -zone ELSE zone
           IN IF zone = 0 THEN <<"Z">>
              ELSE <<IF zone < 0 THEN "-" ELSE "+">> \o Pad2(abs \div 60)
                   \o (IF e = "Z07:00" THEN <<":">> ELSE <<>>)
                   \o (IF e = "Z07" THEN <<>> ELSE Pad2(abs % 60)))
    [] OTHER -> <<e>>

\* Time.Format
RECURSIVE FormatFrom(_, _, _)
FormatFrom(t, layout, k) ==
  IF k > Len(layout) THEN <<>>
  ELSE FormatChunk(layout[k], t) \o FormatFrom(t, layout, k + 1)

Format(t, layout) == FormatFrom(t, layout, 1)

\* Timex.FormatRFC, Timex.FormatRFCshort
FormatRFC(t, layout) == Format(t, layout)

-----------------------------------------------------------------------------
(* The default layouts, in the order of the list TimeFormats.  Those with   *)
(* a zone name (MST) or with a numeric zone after a weekday or month name   *)
(* are left out: they match none of the strings parsed here.                *)

TimeFormats ==
  <<
    <<"2006">>,
    <<"2006", "-", "1">>,
    <<"2006", "-", "1", "-", "2">>,
    <<"2006", "-", "1", "-", "2", " ", "15">>,
    <<"2006", "-", "1", "-", "2", " ", "15", ":", "4">>,
    <<"2006", "-", "1", "-", "2", " ", "15", ":", "4", ":", "5">>,
    <<"1", "-", "2">>,
    <<"15", ":", "4", ":", "5">>,
    <<"15", ":", "4">>,
    <<"15">>,
    <<"2006", "-", "01", "-", "02", "T", "15", ":", "04", ":", "05", "Z0700">>,
    <<"2006", "-", "01", "-", "02", "T", "15", ":", "04", ":", "05", "Z07">>,
    <<"2006", ".", "1", ".", "2">>,
    <<"2006", ".", "1", ".", "2", " ", "15", ":", "04", ":", "05">>,
    <<"2006", ".", "01", ".", "02">>,
    <<"2006", ".", "01", ".", "02", " ", "15", ":", "04", ":", "05">>,
    <<"2006", ".", "01", ".", "02", " ", "15", ":", "04", ":", "05", ".999999999">>,
    <<"1", "/", "2", "/", "2006">>,
    <<"1", "/", "2", "/", "2006", " ", "15", ":", "4", ":", "5">>,
    <<"2006", "/", "01", "/", "02">>,
    <<"2006", "01", "02">>,
    <<"2006", "/", "01", "/", "02", " ", "15", ":", "04", ":", "05">>,
    <<"Mon", " ", "Jan", " ", "_2", " ", "15", ":", "04", ":", "05", " ", "2006">>,
    <<"2006", "-", "01", "-", "02", "T", "15", ":", "04", ":", "05", "Z07:00">>,
    <<"2006", "-", "01", "-", "02", "T", "15", ":", "04", ":", "05", ".999999999", "Z07:00">>,
    <<"3", ":", "04", "PM">>,
    <<"Jan", " ", "_2", " ", "15", ":", "04", ":", "05">>,
    <<"Jan", " ", "_2", " ", "15", ":", "04", ":", "05", ".000">>
  >>

-----------------------------------------------------------------------------
(* Timex.Parse, one pass of its loop at a time.                            *)

\* FormatTimex: nanosecond, second, minute, hour, day, month, year.
FormatTimex(t) ==
  <<Nanosecond(t), Second(t), Minute(t), Hour(t), Day(t), Month(t), Year(t)>>

\* The nil error, and the error parseWithFormat makes for the string s.
NilErr == [msg |-> "", arg |-> <<>>]

CantParse(s) == [msg |-> "can't parse string as time: ", arg |-> s]

\* parseWithFormat that reports no error when no layout matches.
RECURSIVE parseWithFormat_Silent(_, _, _, _)
parseWithFormat_Silent(formats, k, s, location) ==
  IF k > Len(formats) THEN [value |-> ZeroTime, err |-> NilErr]
  ELSE Let(ParseInLocation(formats[k], s, location), LAMBDA r :
         IF r.ok THEN [value |-> r.t, err |-> NilErr]
         ELSE parseWithFormat_Silent(formats, k + 1, s, location))

\* parseWithFormat, from the k-th layout on: the first layout that parses s
\* gives the value; when none does the value is the zero Time.
RECURSIVE parseWithFormat(_, _, _, _)
parseWithFormat(formats, k, s, location) ==
  IF k > Len(formats) THEN [value |-> ZeroTime, err |-> CantParse(s)]
  ELSE Let(ParseInLocation(formats[k], s, location), LAMBDA r :
         IF r.ok THEN [value |-> r.t, err |-> NilErr]
         ELSE parseWithFormat(formats, k + 1, s, location))

\* The loop over parseTime with no special case for a time-only string.
RECURSIVE MergeFields_NoTimeOnly(_, _, _, _, _, _)
MergeFields_NoTimeOnly(i, parseTime, current, hasTimeInStr, onlyTime, set) ==
  Let(<<parseTime, set>>, LAMBDA a :
    IF i > 6 THEN [parseTime |-> a[1], setCurrentTime |-> a[2]]
    ELSE IF hasTimeInStr /\ i <= 3
      THEN MergeFields_NoTimeOnly(i + 1, a[1], current, hasTimeInStr, onlyTime, a[2])
    ELSE LET v == a[1][i + 1]
             filled == IF v = 0 /\ a[2] THEN [a[1] EXCEPT ![i + 1] = current[i + 1]]
                       ELSE a[1]
         IN MergeFields_NoTimeOnly(i + 1, filled, current, hasTimeInStr, onlyTime,
                                   a[2] \/ v # 0))

\* The loop over parseTime filling every zero field, whether or not a
\* non-zero field has been met.
RECURSIVE MergeFields_AlwaysFill(_, _, _, _, _, _)
MergeFields_AlwaysFill(i, parseTime, current, hasTimeInStr, onlyTime, set) ==
  Let(<<parseTime, set>>, LAMBDA a :
    IF i > 6 THEN [parseTime |-> a[1], setCurrentTime |-> a[2]]
    ELSE IF hasTimeInStr /\ i <= 3
      THEN MergeFields_AlwaysFill(i + 1, a[1], current, hasTimeInStr, onlyTime, a[2])
    ELSE LET v == a[1][i + 1]
             filled == IF v = 0 THEN [a[1] EXCEPT ![i + 1] = current[i + 1]]
                       ELSE a[1]
             forced == IF onlyTime /\ i \in {4, 5}
                       THEN [filled EXCEPT ![i + 1] = current[i + 1]] ELSE filled
         IN MergeFields_AlwaysFill(i + 1, forced, current, hasTimeInStr, onlyTime,
                                   a[2] \/ v # 0))

\* The loop `for i, v := range parseTime`, from index i (counted from 0) on.
RECURSIVE MergeFields(_, _, _, _, _, _)
MergeFields(i, parseTime, current, hasTimeInStr, onlyTime, set) ==
  Let(<<parseTime, set>>, LAMBDA a :
    IF i > 6 THEN [parseTime |-> a[1], setCurrentTime |-> a[2]]
    ELSE IF hasTimeInStr /\ i <= 3
      THEN MergeFields(i + 1, a[1], current, hasTimeInStr, onlyTime, a[2])
    ELSE LET v == a[1][i + 1]
             filled == IF v = 0 /\ a[2] THEN [a[1] EXCEPT ![i + 1] = current[i + 1]]
                       ELSE a[1]
             forced == IF onlyTime /\ i \in {4, 5}
                       THEN [filled EXCEPT ![i + 1] = current[i + 1]] ELSE filled
         IN MergeFields(i + 1, forced, current, hasTimeInStr, onlyTime, a[2] \/ v # 0))

\* time.Date of the fields in FormatTimex's order.
DateOf(p, location) == Date(p[7], p[6], p[5], p[4], p[3], p[2], p[1], location)

-----------------------------------------------------------------------------
(* The inputs of the calendar specification: instants spread over two      *)
(* years (one of them a leap year), every month, the first, the last and   *)
(* some middle days, the day's first and last nanosecond, and the hours    *)
(* around both NewYork transitions, and the day Cairo's clocks go forward  *)
(* with the day before it; each seen in every location.                    *)

\* Time.In
In(t, loc) == [t EXCEPT !.loc = loc]

CalYears == {2023, 2024}

CalDays(y, m) == {1, 3, 10, 15, DaysIn(m, y)}

\* <<hour, minute, second, nanosecond>>, UTC
CalClocks ==
  {<<0, 0, 0, 0>>, <<5, 30, 0, 0>>, <<6, 30, 15, 1>>, <<14, 30, 45, 100>>,
   <<23, 59, 59, 999999999>>}

\* Wednesday 2024-03-20 14:30:00 UTC
ExampleWednesday == Date(2024, 3, 20, 14, 30, 0, 0, "UTC")

\* Wednesday 2023-10-25 14:30:45.000000100 UTC, and 25 and 26 April 2024.
ExtraInstants ==
  {ExampleWednesday, Date(2023, 10, 25, 14, 30, 45, 100, "UTC")}
  \cup {Date(2024, 4, d, c[1], c[2], c[3], c[4], "UTC") : d \in {25, 26}, c \in CalClocks}

CalInstants ==
  {u \in {Date(y, m, d, c[1], c[2], c[3], c[4], "UTC") :
            y \in CalYears, m \in 1..12, d \in {1, 3, 10, 15, 28, 29, 30, 31},
            c \in CalClocks} : Day(u) \in CalDays(Year(u), Month(u))}
  \cup ExtraInstants

CalTimes == {In(t, loc) : t \in CalInstants, loc \in Locations}

\* What the Parse variables hold while no Parse runs.
NoMerge == [str |-> <<>>, ok |-> FALSE, ref |-> <<>>, any |-> FALSE, out |-> ZeroTime]

ParseIdle ==
  /\ pc = "idle" /\ caller = "" /\ cands = <<>> /\ idx = 1
  /\ setCurrentTime = FALSE /\ onlyTimeInStr = TRUE
  /\ currentTime = <<>> /\ currentLocation = "UTC"
  /\ value = ZeroTime /\ err = NilErr /\ merged = NoMerge
  /\ panicked = NilErr /\ orig = ZeroTime

ParseUnchanged ==
  UNCHANGED <<pc, caller, cands, idx, setCurrentTime, onlyTimeInStr, currentTime,
              currentLocation, value, err, merged, panicked, orig, heap>>

\* No slice, no goroutine: the specifications of one Timex keep the layouts
\* in timeFormats.
HeapIdle == store = <<>> /\ defaults = <<>> /\ rules = <<>> /\ running = <<>>

NoWeekdays == [start |-> ZeroTime, end |-> ZeroTime, out |-> <<>>]

\* A nil *time.Location.
NilLocation == "nil"

\* A Rule fresh from NewRule has no location; no call has read the clock or
\* taken an argument yet.
EnvIdle == timeLocation = NilLocation /\ now = ZeroTime /\ arg = ""

EnvUnchanged == UNCHANGED <<timeLocation, now, arg>>

-----------------------------------------------------------------------------
(* SpecCal: a Timex over a Rule with any week start day, and one action    *)
(* per boundary method.                                                    *)

InitCal ==
  /\ wrapped \in CalTimes
  /\ weekStartDay \in Sunday..Saturday
  /\ timeFormats = <<>>
  /\ op = "" /\ res = ZeroTime
  /\ ParseIdle
  /\ HeapIdle
  /\ EnvIdle
  /\ weekdays = NoWeekdays

Returns(name, t) ==
  /\ op = ""
  /\ op' = name
  /\ res' = t
  /\ UNCHANGED <<wrapped, weekStartDay, timeFormats, weekdays>>
  /\ ParseUnchanged
  /\ EnvUnchanged

DoBeginningOfMinute == Returns("BeginningOfMinute", BeginningOfMinute(wrapped))
DoBeginningOfHour == Returns("BeginningOfHour", BeginningOfHour(wrapped))
DoBeginningOfDay == Returns("BeginningOfDay", BeginningOfDay(wrapped))
DoBeginningOfWeek == Returns("BeginningOfWeek", BeginningOfWeek(wrapped, weekStartDay))
DoBeginningOfMonth == Returns("BeginningOfMonth", BeginningOfMonth(wrapped))
DoBeginningOfQuarter == Returns("BeginningOfQuarter", BeginningOfQuarter(wrapped))
DoBeginningOfHalf == Returns("BeginningOfHalf", BeginningOfHalf(wrapped))
DoBeginningOfYear == Returns("BeginningOfYear", BeginningOfYear(wrapped))
DoEndOfMinute == Returns("EndOfMinute", EndOfMinute(wrapped))
DoEndOfHour == Returns("EndOfHour", EndOfHour(wrapped))
DoEndOfDay == Returns("EndOfDay", EndOfDay(wrapped))
DoEndOfWeek == Returns("EndOfWeek", EndOfWeek(wrapped, weekStartDay))
DoEndOfMonth == Returns("EndOfMonth", EndOfMonth(wrapped))
DoEndOfQuarter == Returns("EndOfQuarter", EndOfQuarter(wrapped))
DoEndOfHalf == Returns("EndOfHalf", EndOfHalf(wrapped))
DoEndOfYear == Returns("EndOfYear", EndOfYear(wrapped))
DoMonday == Returns("Monday", TimexMonday(BeginningOfDay(wrapped)))
DoSunday == Returns("Sunday", TimexSunday(BeginningOfDay(wrapped)))
DoEndOfSunday == Returns("EndOfSunday", EndOfSunday(wrapped))
DoQuarter == Returns("Quarter", Quarter(wrapped))

NextCal ==
  \/ DoMonday \/ DoSunday \/ DoEndOfSunday \/ DoQuarter
  \/ DoBeginningOfMinute \/ DoBeginningOfHour \/ DoBeginningOfDay
  \/ DoBeginningOfWeek \/ DoBeginningOfMonth \/ DoBeginningOfQuarter
  \/ DoBeginningOfHalf \/ DoBeginningOfYear
  \/ DoEndOfMinute \/ DoEndOfHour \/ DoEndOfDay \/ DoEndOfWeek
  \/ DoEndOfMonth \/ DoEndOfQuarter \/ DoEndOfHalf \/ DoEndOfYear

SpecCal == InitCal /\ [][NextCal]_vars

-----------------------------------------------------------------------------
(* Claims about the period boundaries, checked under SpecCal.              *)

Monday == 1

EndOps == {"EndOfMinute", "EndOfHour", "EndOfDay", "EndOfWeek", "EndOfMonth",
           "EndOfQuarter", "EndOfHalf", "EndOfYear"}

\* The BeginningOfX that belongs to the operation EndOfX named e.
BeginningFor(e, t, wsd) ==
  CASE e = "EndOfMinute" -> BeginningOfMinute(t)
    [] e = "EndOfHour" -> BeginningOfHour(t)
    [] e = "EndOfDay" -> BeginningOfDay(t)
    [] e = "EndOfWeek" -> BeginningOfWeek(t, wsd)
    [] e = "EndOfMonth" -> BeginningOfMonth(t)
    [] e = "EndOfQuarter" -> BeginningOfQuarter(t)
    [] e = "EndOfHalf" -> BeginningOfHalf(t)
    [] e = "EndOfYear" -> BeginningOfYear(t)

\* Midnight of the day that lies `back` days before t's day.
MidnightDaysBefore(t, back) ==
  Date(Year(t), Month(t), Day(t) - back, 0, 0, 0, 0, Location(t))

\* <<year, month, day, hour, minute, second, nanosecond>> of t's wall clock.
FieldsOf(t) ==
  Let(t, LAMBDA u : <<Year(u), Month(u), Day(u), Hour(u), Minute(u), Second(u),
                      Nanosecond(u)>>)

\* The UTC offsets, in hours, that the location takes in the course of a year.
OffsetHours(loc) ==
  CASE loc = "UTC" -> {0}
    [] loc = "Local" -> {7}
    [] loc = "NewYork" -> {-5, -4}
    [] loc = "Cairo" -> {2, 3}

\* Some instant of the location shows the wall clock f: it is not one of the
\* readings that are skipped when the clocks go forward.
WallExists(f, loc) ==
  Let(Normalised(f), LAMBDA u :
    \E h \in OffsetHours(loc) :
      LET i == Instant(u.day, u.sod - h * SecondsPerHour, u.ns, loc)
      IN ZoneOffset(loc, i.day, i.sod) = h * SecondsPerHour)

\* The fields of midnight of the day that lies `back` days before t's day.
MidnightFields(t, back) == <<Year(t), Month(t), Day(t) - back, 0, 0, 0, 0>>

\* C7: for every timestamp and every week start day, BeginningOfWeek is
\* midnight (00:00:00.000000000 where the location has it) of the day (weekday - weekStartDay + 7) mod 7
\* days before the wrapped day, a day whose weekday is weekStartDay, and
\* EndOfWeek is BeginningOfWeek plus seven calendar days minus one
\* nanosecond; Wednesday 2024-03-20 14:30 UTC with a Monday start gives
\* 2024-03-18 00:00:00 and 2024-03-24 23:59:59.999999999.
C7_WeekBoundaries ==
  LET back == (Weekday(wrapped) - weekStartDay + 7) % 7
      start == MidnightDaysBefore(wrapped, back)
  IN /\ op = "BeginningOfWeek" =>
          /\ res = start
          /\ Weekday(res) = weekStartDay
          /\ (WallExists(MidnightFields(wrapped, back), Location(wrapped))
                => Hour(res) = 0 /\ Minute(res) = 0 /\ Second(res) = 0
                   /\ Nanosecond(res) = 0)
          /\ (wrapped = ExampleWednesday /\ weekStartDay = Monday
                => res = Date(2024, 3, 18, 0, 0, 0, 0, "UTC"))
     /\ op = "EndOfWeek" =>
          /\ res = Add(AddDate(start, 0, 0, 7), 0, -1)
          /\ (wrapped = ExampleWednesday /\ weekStartDay = Monday
                => res = Date(2024, 3, 24, 23, 59, 59, 999999999, "UTC"))

\* C8: for every period X and every timestamp t, EndOfX(t) plus one
\* nanosecond is strictly after t and is a period start: BeginningOfX of it
\* returns it unchanged.
C8_EndIsNextStartMinusOne ==
  op \in EndOps =>
    LET next == Add(res, 0, 1)
    IN After(next, wrapped) /\ BeginningFor(op, next, weekStartDay) = next

\* C9: for every timestamp, week start day and period X,
\* BeginningOfX(EndOfX(t)) = BeginningOfX(t).
C9_EndInSamePeriod ==
  op \in EndOps =>
    BeginningFor(op, res, weekStartDay) = BeginningFor(op, wrapped, weekStartDay)

\* The location of t keeps one UTC offset from the last second of the day
\* before t's calendar day to the midnight that ends t's day.
OneOffsetAllDay(t) ==
  LET from == Add(MidnightDaysBefore(t, 0), -1, 0)
      to == MidnightDaysBefore(t, -1)
  IN ZonePeriod(t.loc, from.day, from.sod) = ZonePeriod(t.loc, to.day, to.sod)

DayBounds(t, end) ==
  /\ ~After(BeginningOfDay(t), t)
  /\ ~After(t, end)
  /\ Sub(end, BeginningOfDay(t)) = [sec |-> SecondsPerDay - 1, ns |-> NanosPerSecond - 1]

\* C10 as stated: for every timestamp t, BeginningOfDay(t) <= t <= EndOfDay(t)
\* and EndOfDay(t) - BeginningOfDay(t) = 24h - 1ns.
C10_DayIs24Hours == op = "EndOfDay" => DayBounds(wrapped, res)

\* C10 amended: the same for every timestamp t on a calendar day during which
\* the UTC offset of t's location does not change.
C10_DayIs24HoursOneOffset ==
  (op = "EndOfDay" /\ OneOffsetAllDay(wrapped)) => DayBounds(wrapped, res)

C10_Witness ==
  /\ op = "EndOfDay" /\ OneOffsetAllDay(wrapped) /\ wrapped.loc = "NewYork"
  /\ Hour(res) = 23 /\ Nanosecond(res) = NanosPerSecond - 1

FrameOps ==
  {"BeginningOfYear", "BeginningOfMonth", "BeginningOfDay", "BeginningOfHour",
   "BeginningOfMinute"}

\* How many of the seven fields, from the year down, BeginningOfX keeps.
FieldRank(name) ==
  CASE name = "BeginningOfYear" -> 1
    [] name = "BeginningOfMonth" -> 2
    [] name = "BeginningOfDay" -> 3
    [] name = "BeginningOfHour" -> 4
    [] name = "BeginningOfMinute" -> 5

\* The fields of t with all but the first k at their minimum.
Floored(t, k) ==
  Let(FieldsOf(t), LAMBDA f :
    [i \in 1..7 |-> IF i <= k THEN f[i] ELSE IF i \in {2, 3} THEN 1 ELSE 0])

BoundaryOps ==
  FrameOps \cup EndOps \cup {"BeginningOfWeek", "BeginningOfQuarter", "BeginningOfHalf"}

FrameEffect(strict) ==
  /\ op \in BoundaryOps => Location(res) = Location(wrapped)
  /\ op \in FrameOps =>
       Let(Floored(wrapped, FieldRank(op)), LAMBDA f :
         strict \/ WallExists(f, Location(wrapped)) => FieldsOf(res) = f)

QuarterOfMonth == <<1, 1, 1, 2, 2, 2, 3, 3, 3, 4, 4, 4>>

\* C12: Quarter() is (month - 1) div 3 + 1, a value from 1 to 4: months 1-3
\* give 1, 4-6 give 2, 7-9 give 3, 10-12 give 4.
C12_Quarter ==
  op = "Quarter" =>
    /\ res \in 1..4
    /\ res = ((Month(wrapped) - 1) \div 3) + 1
    /\ res = QuarterOfMonth[Month(wrapped)]

C12_Witness == op = "Quarter" /\ Month(wrapped) = 10 /\ res = 4

C20_MondayAndSunday ==
  LET back == (Weekday(wrapped) - Monday + 7) % 7
      ahead == (Sunday - Weekday(wrapped) + 7) % 7
      example == Year(wrapped) = 2023 /\ Month(wrapped) = 10 /\ Day(wrapped) = 25
  IN /\ op = "Monday" =>
          /\ res = MidnightDaysBefore(wrapped, back)
          /\ Weekday(res) = Monday
          /\ (example => FieldsOf(res) = <<2023, 10, 23, 0, 0, 0, 0>>)
     /\ op = "Sunday" =>
          /\ res = MidnightDaysBefore(wrapped, -ahead)
          /\ Weekday(res) = Sunday
          /\ res = MidnightDaysBefore(wrapped, back - 6)
          /\ (example => FieldsOf(res) = <<2023, 10, 29, 0, 0, 0, 0>>)
     /\ op = "EndOfSunday" =>
          res = Date(Year(wrapped), Month(wrapped), Day(wrapped) + ahead,
                     23, 59, 59, NanosPerSecond - 1, Location(wrapped))

\* The result lies in the week of the wrapped time that starts on wsd.
InWeek(wsd) ==
  /\ ~Before(res, BeginningOfWeek(wrapped, wsd))
  /\ ~After(res, EndOfWeek(wrapped, wsd))

\* C21: for every weekStartDay of the Rule, Monday() and Sunday() with no
\* arguments lie within [BeginningOfWeek(), EndOfWeek()] of the same Timex.
C21_InCurrentWeek ==
  op \in {"Monday", "Sunday"} => InWeek(weekStartDay)

\* C21 as amended: Monday() and Sunday() with no arguments lie in the week
\* from Monday to Sunday that holds the wrapped time, whatever weekStartDay
\* is; that is [BeginningOfWeek(), EndOfWeek()] when weekStartDay is Monday.
C21_InMondayWeek ==
  op \in {"Monday", "Sunday"} =>
    /\ InWeek(Monday)
    /\ weekStartDay = Monday => InWeek(weekStartDay)

\* Sunday() asked on a Sunday, under a Rule whose week starts on Monday.
C21_Witness ==
  /\ op = "Sunday" /\ weekStartDay = Monday /\ Weekday(wrapped) = Sunday
  /\ res = BeginningOfDay(wrapped)
  /\ After(res, BeginningOfWeek(wrapped, weekStartDay))

-----------------------------------------------------------------------------
(* GetWeekdaysInRange and SpecRange, which calls it on ranges of up to      *)
(* MaxSpan days (and on ranges whose end is before their start).            *)

December == 12

\* The body of the for loop, from `current` on, `acc` being the slice so far.
RECURSIVE WeekdaysLoop(_, _, _)
WeekdaysLoop(current, end, acc) ==
  Let(<<current, acc>>, LAMBDA a :
    IF ~(Before(a[1], end) \/ Equal(a[1], end)) THEN a[2]
    ELSE LET d == Weekday(a[1])
             y == Year(a[1])
             keep ==
               /\ d # Sunday /\ d # Saturday
               /\ \/ IsLeapYear(y) /\ Month(a[1]) = February /\ Day(a[1]) = 29
                  \/ /\ ~(IsLeapYear(y) /\ Month(a[1]) = February /\ Day(a[1]) = 29)
                     /\ ~IsLeapYear(y)
                     /\ Day(a[1]) <= Day(Date(y, December, 31, 0, 0, 0, 0, "UTC"))
         IN WeekdaysLoop(AddDate(a[1], 0, 0, 1), end,
                         IF keep THEN Append(a[2], a[1]) ELSE a[2]))

\* A loop that stops a day late.
GetWeekdaysInRange_PastEnd(start, end) ==
  WeekdaysLoop(start, AddDate(end, 0, 0, 1), <<>>)

GetWeekdaysInRange(start, end) == WeekdaysLoop(start, end, <<>>)

MaxSpan == 10

\* Friday 2024-03-01, Wednesday 2023-03-01 (the test's start), the days
\* before 29 February 2024 and before both year ends, a NewYork transition,
\* the midnight two days before the one Cairo skips on 2023-04-28.
RangeStarts ==
  {Date(2024, 3, 1, 0, 0, 0, 0, "UTC"), Date(2023, 3, 1, 0, 0, 0, 0, "UTC"),
   Date(2024, 2, 26, 9, 30, 0, 0, "Local"), Date(2023, 2, 24, 0, 0, 0, 0, "UTC"),
   Date(2023, 12, 27, 0, 0, 0, 0, "UTC"), Date(2024, 12, 27, 12, 0, 0, 0, "Local"),
   Date(2024, 3, 7, 0, 0, 0, 0, "NewYork"), Date(2023, 10, 25, 14, 30, 45, 100, "UTC"),
   Date(2023, 4, 26, 0, 0, 0, 0, "Cairo")}

\* The end is a whole number of days after the start, or a second short of it.
RangeEnds(start) ==
  {Add(AddDate(start, 0, 0, k), -short, 0) : k \in (-1)..MaxSpan, short \in {0, 1}}

InitRange ==
  /\ wrapped = ZeroTime
  /\ weekStartDay = Sunday
  /\ timeFormats = <<>>
  /\ op = "" /\ res = ZeroTime
  /\ ParseIdle
  /\ HeapIdle
  /\ EnvIdle
  /\ \E a \in RangeStarts : \E b \in RangeEnds(a) :
       weekdays = [start |-> a, end |-> b, out |-> <<>>]

DoGetWeekdaysInRange ==
  /\ op = ""
  /\ op' = "GetWeekdaysInRange"
  /\ weekdays' = [weekdays EXCEPT !.out = GetWeekdaysInRange(weekdays.start, weekdays.end)]
  /\ UNCHANGED <<wrapped, weekStartDay, timeFormats, res>>
  /\ ParseUnchanged
  /\ EnvUnchanged

NextRange == DoGetWeekdaysInRange

SpecRange == InitRange /\ [][NextRange]_vars

\* start, start + 1 day, ... as long as they are not after end, in order.
RECURSIVE DaysUpTo(_, _, _)
DaysUpTo(start, end, k) ==
  LET day == AddDate(start, 0, 0, k)
  IN IF After(day, end) THEN <<>> ELSE <<day>> \o DaysUpTo(start, end, k + 1)

IsWorkday(t) == Weekday(t) \in Monday..5

\* C6: GetWeekdaysInRange(start, end) is, in ascending order, exactly the
\* dates start, start + 1 day, ... up to and including end that fall on
\* Monday to Friday, in leap years as in others; 2024-03-01 .. 2024-03-10
\* gives the six dates 1, 4, 5, 6, 7, 8.
C6_AllWorkdaysOfRange ==
  op = "GetWeekdaysInRange" =>
    /\ weekdays.out = SelectSeq(DaysUpTo(weekdays.start, weekdays.end, 0), IsWorkday)
    /\ (/\ weekdays.start = Date(2024, 3, 1, 0, 0, 0, 0, "UTC")
        /\ weekdays.end = Date(2024, 3, 10, 0, 0, 0, 0, "UTC"))
         => [i \in 1..Len(weekdays.out) |-> Day(weekdays.out[i])] = <<1, 4, 5, 6, 7, 8>>

\* start advanced by k calendar days in one call of AddDate, k = 0, 1, ...,
\* as far as the ranges of SpecRange reach.
DaysFrom(start) == {AddDate(start, 0, 0, k) : k \in 0..(MaxSpan + 1)}

\* The values `current` takes in the loop: start, then one AddDate(0, 0, 1)
\* after another, as long as they are not after end.
RECURSIVE DaySteps(_, _)
DaySteps(current, end) ==
  IF After(current, end) THEN {}
  ELSE {current} \cup DaySteps(AddDate(current, 0, 0, 1), end)

\* What C30 says of the result apart from where its elements come from: none
\* is after end, each falls on Monday to Friday, they strictly increase, and
\* there is none when start is after end.
SoundOrder ==
  /\ \A i \in 1..Len(weekdays.out) :
       ~After(weekdays.out[i], weekdays.end) /\ IsWorkday(weekdays.out[i])
  /\ \A i \in 1..(Len(weekdays.out) - 1) : Before(weekdays.out[i], weekdays.out[i + 1])
  /\ After(weekdays.start, weekdays.end) => weekdays.out = <<>>

\* C30 as stated: every element of GetWeekdaysInRange(start, end) is start
\* plus a whole number k >= 0 of calendar days, is not after end and falls on
\* Monday to Friday; the elements strictly increase, and the result is empty
\* when start is after end.
C30_SoundByDays ==
  op = "GetWeekdaysInRange" =>
    /\ \A i \in 1..Len(weekdays.out) : weekdays.out[i] \in DaysFrom(weekdays.start)
    /\ SoundOrder

\* C30, amended: every element of GetWeekdaysInRange(start, end) is reached
\* from start by a whole number k >= 0 of successive one-calendar-day steps,
\* is not after end and falls on Monday to Friday; the elements strictly
\* increase, and the result is empty when start is after end.
C30_SoundBySteps ==
  op = "GetWeekdaysInRange" =>
    /\ \A i \in 1..Len(weekdays.out) :
         weekdays.out[i] \in DaySteps(weekdays.start, weekdays.end)
    /\ SoundOrder

\* A range over the midnight Cairo skips: the days after it are returned an
\* hour into the day, where no AddDate from start lands.
C30_Witness ==
  /\ op = "GetWeekdaysInRange"
  /\ weekdays.start = Date(2023, 4, 26, 0, 0, 0, 0, "Cairo")
  /\ Len(weekdays.out) >= 4
  /\ weekdays.out[4] = Date(2023, 5, 1, 1, 0, 0, 0, "Cairo")
  /\ weekdays.out[4] \notin DaysFrom(weekdays.start)

-----------------------------------------------------------------------------
(* SpecParse: Parse and MustParse of a Timex with the default layouts, on  *)
(* every list of up to MaxCands of the sample strings.  One action per     *)
(* stretch of Parse: its declarations, one pass of its loop, its return.   *)

MaxCands == 2

\* "13:15", "23", "13:15:45.123", "2:30": a time alone
\* "2025-02-15", "2025", "11-15", "2024-03-15 10:00:00": a date, with a time or not
\* "x", "99:99": what no layout parses
Samples ==
  {<<"1", "3", ":", "1", "5">>, <<"2", "3">>,
   <<"1", "3", ":", "1", "5", ":", "4", "5", ".", "1", "2", "3">>, <<"2", ":", "3", "0">>,
   <<"2", "0", "2", "5", "-", "0", "2", "-", "1", "5">>, <<"2", "0", "2", "5">>,
   <<"1", "1", "-", "1", "5">>, <<"2", "0", "2", "4", "-", "0", "3", "-", "1", "5", " ", "1", "0", ":", "0", "0", ":", "0", "0">>,
   <<"x">>, <<"9", "9", ":", "9", "9">>}

RECURSIVE ListsUpTo(_)
ListsUpTo(n) ==
  IF n = 0 THEN {<<>>}
  ELSE ListsUpTo(n - 1) \cup {Append(l, c) : l \in {m \in ListsUpTo(n - 1) : Len(m) = n - 1},
                                             c \in Samples}

\* The wrapped times: the reference of the README's examples, a time with every
\* field set, a leap day in the local zone, and a day NewYork's clocks skip
\* an hour of.
Reference == Date(2024, 3, 15, 10, 0, 0, 0, "UTC")

ParseTimes ==
  {Reference,
   Date(2023, 10, 25, 14, 30, 45, 100, "NewYork"),
   Date(2024, 2, 29, 23, 59, 59, 0, "Local"),
   Date(2024, 3, 10, 12, 0, 0, 0, "NewYork")}

InitParse ==
  /\ wrapped \in ParseTimes
  /\ weekStartDay = Sunday
  /\ timeFormats = TimeFormats
  /\ op = "" /\ res = ZeroTime
  /\ ParseIdle
  /\ HeapIdle
  /\ EnvIdle
  /\ weekdays = NoWeekdays

\* Parse's var block, t being the time the Timex wraps.
ParseVars(c, s, t) ==
  /\ pc = "idle"
  /\ pc' = "loop" /\ caller' = c /\ cands' = s /\ idx' = 1
  /\ setCurrentTime' = FALSE /\ onlyTimeInStr' = TRUE
  /\ currentLocation' = Location(t)
  /\ currentTime' = FormatTimex(t)
  /\ value' = ZeroTime /\ err' = NilErr
  /\ merged' = [NoMerge EXCEPT !.out = t]
  /\ UNCHANGED <<weekStartDay, timeFormats, op, res, panicked, weekdays, timeLocation, arg>>

\* Timex.Parse called on the wrapped time (MustParse calls Parse first thing).
ParseCall(c, s) ==
  /\ op = ""
  /\ ParseVars(c, s, wrapped)
  /\ UNCHANGED <<wrapped, now>>

DoParse == \E s \in ListsUpTo(MaxCands) : ParseCall("Parse", s) /\ UNCHANGED <<orig, heap>>

DoMustParse == \E s \in ListsUpTo(MaxCands) : ParseCall("MustParse", s) /\ UNCHANGED <<orig, heap>>

\* One pass of `for _, str := range s`.
ParseIter ==
  /\ pc = "loop" /\ idx <= Len(cands)
  /\ LET str == cands[idx]
         hasTimeInStr == ApplyTimeRegexp(str)
         onlyTime == hasTimeInStr /\ onlyTimeInStr /\ OnlyTimeRegexp(str)
     IN \E r \in {parseWithFormat(timeFormats, 1, str, currentLocation)} :
          /\ onlyTimeInStr' = onlyTime
          /\ err' = r.err
          /\ IF r.err = NilErr
             THEN \E m \in {MergeFields(0, FormatTimex(r.value), currentTime, hasTimeInStr,
                                        onlyTime, setCurrentTime)} :
                  \E v \in {DateOf(m.parseTime, Location(r.value))} :
                    /\ value' = v
                    /\ currentTime' = FormatTimex(v)
                    /\ setCurrentTime' = m.setCurrentTime
                    /\ merged' = [str |-> str, ok |-> TRUE, ref |-> currentTime,
                                  any |-> TRUE, out |-> v]
             ELSE /\ value' = r.value
                  /\ UNCHANGED <<currentTime, setCurrentTime>>
                  /\ merged' = [merged EXCEPT !.str = str, !.ok = FALSE,
                                                !.ref = currentTime]
  /\ idx' = idx + 1
  /\ UNCHANGED <<wrapped, weekStartDay, timeFormats, op, res, pc, caller, cands,
                 currentLocation, panicked, orig, weekdays, heap>>
  /\ EnvUnchanged

\* Parse's return; MustParse panics with the error or returns the value.
ParseReturn ==
  /\ pc = "loop" /\ idx > Len(cands)
  /\ pc' = "done" /\ op' = caller
  /\ IF caller = "MustParse" /\ err # NilErr
     THEN panicked' = err /\ res' = res
     ELSE res' = value /\ panicked' = panicked
  /\ UNCHANGED <<wrapped, weekStartDay, timeFormats, caller, cands, idx, setCurrentTime,
                 onlyTimeInStr, currentTime, currentLocation, value, err, merged, orig,
                 weekdays, heap>>
  /\ EnvUnchanged

\* Timex.Parse of the one string str, as MustParse(str) runs it: [value, err].
ParseOne(t, formats, str) ==
  Let(parseWithFormat(formats, 1, str, Location(t)), LAMBDA r :
    IF r.err # NilErr THEN r
    ELSE LET hasTimeInStr == ApplyTimeRegexp(str)
             onlyTime == hasTimeInStr /\ OnlyTimeRegexp(str)
             m == MergeFields(0, FormatTimex(r.value), FormatTimex(t), hasTimeInStr,
                              onlyTime, FALSE)
         IN [value |-> DateOf(m.parseTime, Location(r.value)), err |-> NilErr])

\* One pass of Parse's loop as a function of the loop's variables st and the
\* string str; `out` is the timestamp of the latest merge.
ParseStep(st, str, formats, location) ==
  Let(parseWithFormat(formats, 1, str, location), LAMBDA r :
    LET hasTimeInStr == ApplyTimeRegexp(str)
        onlyTime == hasTimeInStr /\ st.onlyTimeInStr /\ OnlyTimeRegexp(str)
    IN IF r.err # NilErr
         THEN [st EXCEPT !.onlyTimeInStr = onlyTime, !.value = r.value, !.err = r.err]
       ELSE Let(MergeFields(0, FormatTimex(r.value), st.currentTime, hasTimeInStr,
                            onlyTime, st.setCurrentTime), LAMBDA m :
              Let(DateOf(m.parseTime, Location(r.value)), LAMBDA v :
                [setCurrentTime |-> m.setCurrentTime, onlyTimeInStr |-> onlyTime,
                 currentTime |-> FormatTimex(v), value |-> v, err |-> NilErr,
                 out |-> v])))

\* Parse's loop over the strings of s from the k-th on.
RECURSIVE ParseFrom(_, _, _, _, _)
ParseFrom(st, s, k, formats, location) ==
  IF k > Len(s) THEN st
  ELSE Let(ParseStep(st, s[k], formats, location), LAMBDA next :
         ParseFrom(next, s, k + 1, formats, location))

\* Timex.Parse(s...) on a Timex wrapping t, as a function.
ParseList(t, formats, s) ==
  ParseFrom([setCurrentTime |-> FALSE, onlyTimeInStr |-> TRUE,
             currentTime |-> FormatTimex(t), value |-> ZeroTime, err |-> NilErr,
             out |-> t], s, 1, formats, Location(t))

\* A variant that counts the two bounds in.
Between_Inclusive(t, beginTime, endTime) == ~Before(t, beginTime) /\ ~After(t, endTime)

\* return t.After(beginTime) && t.Before(endTime)
Between(t, beginTime, endTime) == After(t, beginTime) /\ Before(t, endTime)

\* Timex.Between: MustParse(begin), MustParse(end), each panicking on an
\* error, then the comparison.
DoBetween ==
  /\ pc = "idle" /\ op = ""
  /\ \E begin \in Samples :
     \E b \in {ParseOne(wrapped, timeFormats, begin)} :
     \E end \in Samples :
     \E e \in {ParseOne(wrapped, timeFormats, end)} :
       /\ op' = "Between" /\ cands' = <<begin, end>>
       /\ IF b.err # NilErr THEN panicked' = b.err /\ res' = res
          ELSE IF e.err # NilErr THEN panicked' = e.err /\ res' = res
          ELSE panicked' = panicked /\ res' = Between(wrapped, b.value, e.value)
  /\ UNCHANGED <<wrapped, weekStartDay, timeFormats, pc, caller, idx, setCurrentTime,
                 onlyTimeInStr, currentTime, currentLocation, value, err, merged,
                 orig, weekdays, heap>>
  /\ EnvUnchanged

NextParse == DoParse \/ DoMustParse \/ ParseIter \/ ParseReturn \/ DoBetween

SpecParse == InitParse /\ [][NextParse]_vars

-----------------------------------------------------------------------------
(* Claims on SpecParse.                                                     *)

\* s matches one of the Rule's layouts.
Parses(s) ==
  \E k \in 1..Len(timeFormats) : ParseInLocation(timeFormats[k], s, currentLocation).ok

Returned == pc = "done"

\* C1: whenever at least one candidate matches a configured layout, Parse
\* returns a nil error and the timestamp merged from the last candidate that
\* parsed, wherever the candidates that failed stand in the list.
C1_LastMergedReturned ==
  (Returned /\ caller = "Parse" /\ \E i \in 1..Len(cands) : Parses(cands[i]))
    => (err = NilErr /\ res = merged.out)

NoneParses == \A i \in 1..Len(cands) : ~Parses(cands[i])

MustParseFollowsParse ==
  (Returned /\ caller = "MustParse")
    => IF err = NilErr THEN res = value /\ panicked = NilErr ELSE panicked = err

\* C2 as stated: for every candidate list of which no string parses, Parse
\* returns the zero timestamp and an error naming the failing string, MustParse
\* panics with that error; and where Parse's error is nil MustParse returns
\* Parse's timestamp.
C2_NoneParsesIsError ==
  /\ (Returned /\ NoneParses)
       => /\ value = ZeroTime
          /\ \E i \in 1..Len(cands) : err = CantParse(cands[i])
          /\ caller = "Parse" => res = ZeroTime
          /\ caller = "MustParse" => panicked = err
  /\ MustParseFollowsParse

\* C2, amended: for every candidate list that is not empty and of which no
\* string parses, Parse returns the zero timestamp and the error naming the
\* last candidate, MustParse panics with that error; and where Parse's error
\* is nil MustParse returns Parse's timestamp.
C2_NoneOfSomeParsesIsError ==
  /\ (Returned /\ NoneParses /\ Len(cands) > 0)
       => /\ value = ZeroTime
          /\ err = CantParse(cands[Len(cands)])
          /\ caller = "Parse" => res = ZeroTime
          /\ caller = "MustParse" => panicked = err
  /\ MustParseFollowsParse

C2_Witness ==
  /\ Returned /\ caller = "MustParse"
  /\ cands = <<<<"x">>, <<"9", "9", ":", "9", "9">>>>
  /\ panicked = CantParse(<<"9", "9", ":", "9", "9">>)

\* The time of day a time-only sample writes: hour, minute, second, nanosecond.
ClockOf(s) ==
  CASE s = <<"1", "3", ":", "1", "5">> -> <<13, 15, 0, 0>>
    [] s = <<"2", "3">> -> <<23, 0, 0, 0>>
    [] s = <<"1", "3", ":", "1", "5", ":", "4", "5", ".", "1", "2", "3">> -> <<13, 15, 45, 123000000>>
    [] s = <<"2", ":", "3", "0">> -> <<2, 30, 0, 0>>

DateKeptClockTaken ==
  /\ Year(res) = Year(wrapped) /\ Month(res) = Month(wrapped) /\ Day(res) = Day(wrapped)
  /\ Location(res) = Location(wrapped)
  /\ <<Hour(res), Minute(res), Second(res), Nanosecond(res)>> = ClockOf(cands[1])

OneTimeOnly ==
  Returned /\ caller = "Parse" /\ Len(cands) = 1 /\ OnlyTimeRegexp(cands[1]) /\ err = NilErr

\* C3 as stated: parsing a single time-only string keeps the reference's year,
\* month, day and location and takes the time of day from the string, the finer
\* fields zero; reference 2024-03-15 10:00:00 with "13:15" yields
\* 2024-03-15 13:15:00.000000000.
C3_TimeOnlyOnReference == OneTimeOnly => DateKeptClockTaken

\* C3, amended: the same, for a reference on a calendar day during which the
\* UTC offset of its location does not change.
C3_TimeOnlyOnReferenceOneOffset ==
  (OneTimeOnly /\ OneOffsetAllDay(wrapped)) => DateKeptClockTaken

C3_Witness ==
  /\ OneTimeOnly /\ wrapped = Reference /\ cands = <<<<"1", "3", ":", "1", "5">>>>
  /\ res = Date(2024, 3, 15, 13, 15, 0, 0, "UTC")

\* C4: a time-only candidate never alters the calendar date: at whatever
\* position it stands, the timestamp merged from it has the year, month and
\* day of the running reference it was merged against.
C4_TimeOnlyKeepsDate ==
  (pc \in {"loop", "done"} /\ merged.ok /\ OnlyTimeRegexp(merged.str))
    => /\ Year(merged.out) = merged.ref[7]
       /\ Month(merged.out) = merged.ref[6]
       /\ Day(merged.out) = merged.ref[5]

------------------------------------------------------------------------\* What a Parse of the one string str against the wrapped time returns.
ParsedAlone(str) == ParseOne(wrapped, timeFormats, str).value

Handled == SubSeq(cands, 1, idx - 1)

\* The loop's variables are what the function ParseList gives for the strings
\* handled so far.
ParseListAgrees ==
  (pc \in {"loop", "done"} /\ caller \in {"Parse", "MustParse"}) =>
    LET st == ParseList(wrapped, timeFormats, Handled)
    IN /\ st.value = value /\ st.err = err /\ st.out = merged.out
       /\ st.currentTime = currentTime /\ st.setCurrentTime = setCurrentTime
       /\ st.onlyTimeInStr = onlyTimeInStr

\* C24: a candidate that matches no layout contributes nothing: it leaves
\* the running reference as it was, and the timestamp merged from the later
\* candidates (and the running reference they leave) is what it would be had
\* the failing strings not been in the list.
C24_FailedContributesNothing ==
  (pc \in {"loop", "done"} /\ caller \in {"Parse", "MustParse"} /\ idx > 1) =>
    /\ ~merged.ok => currentTime = merged.ref
    /\ LET without == ParseList(wrapped, timeFormats, SelectSeq(Handled, Parses))
       IN merged.out = without.out /\ currentTime = without.currentTime

\* The first layout of the Rule that the string str matches.
MatchedLayout(str) ==
  timeFormats[CHOOSE k \in 1..Len(timeFormats) :
                /\ ParseInLocation(timeFormats[k], str, currentLocation).ok
                /\ \A j \in 1..(k - 1) :
                     ~ParseInLocation(timeFormats[j], str, currentLocation).ok]

\* The fields a layout specifies, by their index in FormatTimex's order.
Specified(layout) ==
  {i \in 1..7 :
     layout \in {l \in {layout} :
       \E k \in 1..Len(l) :
         l[k] \in (CASE i = 1 -> {".999999999", ".000"}
                     [] i = 2 -> {"05", "5"}
                     [] i = 3 -> {"04", "4"}
                     [] i = 4 -> {"15", "3"}
                     [] i = 5 -> {"02", "2", "_2"}
                     [] i = 6 -> {"01", "1", "Jan"}
                     [] i = 7 -> {"2006"})}}

-----------------------------------------------------------------------------
(* SpecZoned: Parse of lists that begin with a string carrying its own      *)
(* zone, alone or followed by one of the strings above.                     *)

\* "2025-02-15T10:00:00Z", "2025-02-15T10:00:00-05:00",
\* "2025-02-15T10:00:00.5+09:00"
ZonedSamples ==
  {<<"2", "0", "2", "5", "-", "0", "2", "-", "1", "5", "T", "1", "0", ":", "0", "0", ":", "0", "0", "Z">>,
   <<"2", "0", "2", "5", "-", "0", "2", "-", "1", "5", "T", "1", "0", ":", "0", "0", ":", "0", "0", "-", "0", "5", ":", "0", "0">>,
   <<"2", "0", "2", "5", "-", "0", "2", "-", "1", "5", "T", "1", "0", ":", "0", "0", ":", "0", "0", ".", "5", "+", "0", "9", ":", "0", "0">>}

ZonedLists ==
  {<<z>> : z \in ZonedSamples} \cup {<<z, c>> : z \in ZonedSamples, c \in Samples}

DoParseZoned == \E s \in ZonedLists : ParseCall("Parse", s) /\ UNCHANGED <<orig, heap>>

NextZoned == DoParseZoned \/ ParseIter \/ ParseReturn

SpecZoned == InitParse /\ [][NextZoned]_vars

\* The matched layout of str has a zone element.
Zoned(str) == \E k \in 1..Len(MatchedLayout(str)) :
                MatchedLayout(str)[k] \in {"Z0700", "Z07", "Z07:00"}

\* C26: each candidate is parsed in the location of the running reference:
\* the location of the wrapped time before any success, and the zone of the
\* latest merged timestamp after one, so that a zone-less candidate after a
\* candidate with a zone is read in that zone and the timestamp returned
\* carries it.
C26_ParsedInReferenceLocation ==
  (pc \in {"loop", "done"} /\ caller = "Parse" /\ idx > 1 /\ merged.ok
     /\ ~Zoned(merged.str)) =>
    LET reference == ParseList(wrapped, timeFormats, SubSeq(cands, 1, idx - 2)).out
    IN /\ Location(merged.out) = Location(reference)
       /\ pc = "done" => Location(res) = Location(reference)

\* The same with the location the code uses: that of the wrapped time.
ParsedInWrappedLocation ==
  (pc \in {"loop", "done"} /\ caller = "Parse" /\ idx > 1 /\ merged.ok
     /\ ~Zoned(merged.str)) =>
    /\ Location(merged.out) = Location(wrapped)
    /\ pc = "done" => Location(res) = Location(wrapped)

-----
(* SpecRoundTrip: a Rule with one layout; a timestamp is formatted with    *)
(* the layout and the text is parsed by a Timex of that Rule.              *)

\* "2006-01-02 15:04:05"
TimeFormat20060102150405 ==
  <<"2006", "-", "01", "-", "02", " ", "15", ":", "04", ":", "05">>

\* "2006-01-02"
TimeFormat20060102 == <<"2006", "-", "01", "-", "02">>

\* "15:04"
TimeRFC07D150405 == <<"15", ":", "04">>

\* time.Kitchen, "3:04PM"
Kitchen == <<"3", ":", "04", "PM">>

\* "2006.01.02 15:04:05.999999999"
TimeFormatNano ==
  <<"2006", ".", "01", ".", "02", " ", "15", ":", "04", ":", "05", ".999999999">>

RoundTripLayouts ==
  {TimeFormat20060102150405, TimeFormat20060102, TimeRFC07D150405, Kitchen, TimeFormatNano}

RoundTripTimes ==
  {Date(d[1], d[2], d[3], c[1], c[2], c[3], c[4], loc) :
     d \in {<<2024, 3, 15>>, <<2023, 12, 31>>},
     c \in {<<0, 0, 0, 0>>, <<0, 45, 0, 0>>, <<10, 0, 0, 100000000>>, <<12, 0, 0, 0>>,
            <<13, 15, 45, 123456789>>, <<23, 59, 59, 999999999>>},
     loc \in {"UTC", "Local"}}

InitRoundTrip ==
  /\ wrapped \in ParseTimes
  /\ weekStartDay = Sunday
  /\ timeFormats \in {<<l>> : l \in RoundTripLayouts}
  /\ op = "" /\ res = ZeroTime
  /\ ParseIdle
  /\ HeapIdle
  /\ EnvIdle
  /\ weekdays = NoWeekdays

\* t.FormatRFC(L), and Parse of the text.
DoFormatAndParse ==
  \E t \in RoundTripTimes :
    /\ orig' = t
    /\ UNCHANGED heap
    /\ ParseCall("Parse", <<FormatRFC(t, timeFormats[1])>>)

NextRoundTrip == DoFormatAndParse \/ ParseIter \/ ParseReturn

SpecRoundTrip == InitRoundTrip /\ [][NextRoundTrip]_vars

Has(layout, chunks) == \E k \in 1..Len(layout) : layout[k] \in chunks

\* Every field the layout renders has the same value in a and in b.
RenderedFieldsAgree(layout, a, b) ==
  /\ Has(layout, {"2006"}) => Year(a) = Year(b)
  /\ Has(layout, {"01", "1", "Jan"}) => Month(a) = Month(b)
  /\ Has(layout, {"02", "2", "_2"}) => Day(a) = Day(b)
  /\ (Has(layout, {"15"}) \/ (Has(layout, {"3"}) /\ Has(layout, {"PM"})))
       => Hour(a) = Hour(b)
  /\ Has(layout, {"04", "4"}) => Minute(a) = Minute(b)
  /\ Has(layout, {"05", "5"}) => Second(a) = Second(b)
  /\ Has(layout, {".999999999"}) => Nanosecond(a) = Nanosecond(b)

\* C5: for a Rule whose only layout is L and any timestamp t, formatting t
\* with L and parsing the text back gives a nil error and a timestamp in which
\* every field L renders has the value it has in t, whatever the reference.
C5_RoundTrip ==
  (Returned /\ Len(timeFormats) = 1)
    => (err = NilErr /\ RenderedFieldsAgree(timeFormats[1], orig, res))

-----------------------------------------------------------------------------
(* TimeAgo, TimeUntil, SetTimezone and AdjustTimezone, and SpecEntry, which *)
(* calls each once on a reference at a chosen distance from the clock.      *)

\* fmt.Sprintf of a format and its arguments; a plain string has none.
Sprintf(format, args) == [format |-> format, arg |-> args]

\* A time.Duration is [sec, ns] with 0 <= ns < 1e9, sec rounded down.
Abs(d) ==
  IF d.sec >= 0 THEN d
  ELSE IF d.ns = 0 THEN [sec |-> -d.sec, ns |-> 0]
  ELSE [sec |-> -d.sec - 1, ns |-> NanosPerSecond - d.ns]

RECURSIVE Log2(_)
Log2(n) == IF n < 2 THEN 0 ELSE 1 + Log2(n \div 2)

RECURSIVE Pow2(_)
Pow2(n) == IF n = 0 THEN 1 ELSE 2 * Pow2(n - 1)

\* int(d.Seconds()), int(d.Minutes()), int(d.Hours()): the duration is split
\* into whole units and a remainder, the two are added as float64 and the sum
\* is cut to an integer.  A unit is unitSecs seconds = odd * 2^shift
\* nanoseconds.  The sum is the next whole number when the remainder is so
\* few nanoseconds short of a unit that the 53-bit float64 cannot hold the
\* difference: short * 2^(53 - Log2(whole)) < odd * 2^shift.
Whole(d, unitSecs, odd, shift) ==
  Let(Abs(d), LAMBDA a :
    LET whole == a.sec \div unitSecs
        short == IF a.sec % unitSecs = unitSecs - 1 THEN NanosPerSecond - a.ns
                 ELSE NanosPerSecond
        n == 53 - Log2(whole) - shift
        up == whole >= 1 /\ n <= 30 /\ short <= (odd - 1) \div Pow2(n)
        size == IF up THEN whole + 1 ELSE whole
    IN IF d.sec < 0 THEN -size ELSE size)

Seconds(d) == Whole(d, 1, 1953125, 9)
Minutes(d) == Whole(d, SecondsPerMinute, 29296875, 11)
Hours(d) == Whole(d, SecondsPerHour, 439453125, 13)

\* int(diff.Hours() / 24)
Days(d) == IF Hours(d) >= 0 THEN Hours(d) \div 24 ELSE -((-Hours(d)) \div 24)

\* The switch of TimeAgo and TimeUntil; `few` is the phrase of its first
\* case, `pre` and `post` what the others put around the count.
Phrase(diff, few, pre, post) ==
  Let(<<Seconds(diff), Minutes(diff), Hours(diff), Days(diff)>>, LAMBDA n :
    LET seconds == n[1]
        minutes == n[2]
        hours == n[3]
        days == n[4]
    IN CASE seconds < 60 -> Sprintf(few, <<>>)
         [] OTHER ->
       CASE minutes < 2 -> Sprintf(pre \o "1 minute" \o post, <<>>)
         [] minutes < 60 -> Sprintf(pre \o "%d minutes" \o post, <<minutes>>)
         [] OTHER ->
       CASE hours < 2 -> Sprintf(pre \o "1 hour" \o post, <<>>)
         [] hours < 24 -> Sprintf(pre \o "%d hours" \o post, <<hours>>)
         [] OTHER ->
       CASE days < 2 -> Sprintf(pre \o "1 day" \o post, <<>>)
         [] days < 7 -> Sprintf(pre \o "%d days" \o post, <<days>>)
         [] days < 14 -> Sprintf(pre \o "1 week" \o post, <<>>)
         [] days < 30 -> Sprintf(pre \o "%d weeks" \o post, <<days \div 7>>)
         [] days < 60 -> Sprintf(pre \o "1 month" \o post, <<>>)
         [] days < 365 -> Sprintf(pre \o "%d months" \o post, <<days \div 30>>)
         [] days < 730 -> Sprintf(pre \o "1 year" \o post, <<>>)
         [] OTHER -> Sprintf(pre \o "%d years" \o post, <<days \div 365>>))

\* Timex.TimeAgo of the reference t when time.Now() reads clock.
TimeAgo(t, clock) == Phrase(Sub(clock, t), "just now", "", " ago")

\* Timex.TimeUntil of the reference t when time.Now() reads clock.
TimeUntil(t, clock) ==
  Let(Sub(t, clock), LAMBDA diff :
    IF diff.sec < 0 THEN Sprintf("in the past", <<>>)
    ELSE Phrase(diff, "in a few seconds", "in ", ""))

\* time.LoadLocation: [loc, err].  "" and "UTC" are UTC, "Local" is Local,
\* other names are looked up in the zone database, and a name it does not
\* hold gives a nil location and an error.
LoadLocation(name) ==
  CASE name \in {"", "UTC"} -> [loc |-> "UTC", err |-> NilErr]
    [] name = "Local" -> [loc |-> "Local", err |-> NilErr]
    [] name = "America/New_York" -> [loc |-> "NewYork", err |-> NilErr]
    [] name = "Africa/Cairo" -> [loc |-> "Cairo", err |-> NilErr]
    [] OTHER -> [loc |-> NilLocation, err |-> [msg |-> "unknown time zone ", arg |-> <<name>>]]

\* SetTimezone: [now, err]
SetTimezone(v, name) ==
  Let(LoadLocation(name), LAMBDA l :
    IF l.err # NilErr THEN [now |-> v, err |-> l.err]
    ELSE [now |-> In(v, l.loc), err |-> NilErr])

\* A variant that relabels the clock reading instead of converting the instant.
AdjustTimezone_SameWallClock(v, name) ==
  Let(LoadLocation(name), LAMBDA l :
    IF l.err # NilErr THEN v
    ELSE Date(Year(v), Month(v), Day(v), Hour(v), Minute(v), Second(v),
              Nanosecond(v), l.loc))

AdjustTimezone(v, name) ==
  Let(SetTimezone(v, name), LAMBDA r : IF r.err # NilErr THEN v ELSE r.now)

\* A time.Duration, an int64 count of nanoseconds, as whole days, seconds of
\* the day and nanoseconds of the second (each floored, so a negative
\* duration has a negative day count).
Dur(d, s, n) ==
  LET s1 == s + (n \div NanosPerSecond)
  IN [d |-> d + (s1 \div SecondsPerDay), s |-> s1 % SecondsPerDay,
      n |-> n % NanosPerSecond]

\* 1<<63 - 1 and -1<<63 nanoseconds, and 1<<64 nanoseconds.
MaxDuration == Dur(106751, 85636, 854775807)
MinDuration == Dur(-106752, 763, 145224192)
TwoTo64 == Dur(213503, 84873, 709551616)

DurLess(a, b) ==
  \/ a.d < b.d
  \/ a.d = b.d /\ a.s < b.s
  \/ a.d = b.d /\ a.s = b.s /\ a.n < b.n

\* The int64 a product of Durations wraps to (for a product less than 1<<64
\* in magnitude beyond the range).
Int64(x) ==
  IF DurLess(MaxDuration, x)
    THEN Dur(x.d - TwoTo64.d, x.s - TwoTo64.s, x.n - TwoTo64.n)
  ELSE IF DurLess(x, MinDuration)
    THEN Dur(x.d + TwoTo64.d, x.s + TwoTo64.s, x.n + TwoTo64.n)
  ELSE x

\* Time.Add of a Duration.
AddDuration(v, x) ==
  Let(Add(v, x.s, x.n), LAMBDA u : [u EXCEPT !.day = u.day + x.d])

\* time.Second, time.Minute, time.Hour and time.Hour * 24, each times count,
\* before the product is cut to 64 bits.
Times(unit, count) ==
  CASE unit = "AddSecond" -> Dur(count \div SecondsPerDay, count % SecondsPerDay, 0)
    [] unit = "AddMinute" -> Dur(count \div 1440, (count % 1440) * SecondsPerMinute, 0)
    [] unit = "AddHour" -> Dur(count \div 24, (count % 24) * SecondsPerHour, 0)
    [] unit = "AddDay" -> Dur(count, 0, 0)

\* AddSecond, AddMinute, AddHour and AddDay: the same body over four units.
Shift(unit, v, count) ==
  IF count = 0 THEN v ELSE AddDuration(v, Int64(Times(unit, count)))

AddSecond(v, second) == Shift("AddSecond", v, second)
AddMinute(v, minute) == Shift("AddMinute", v, minute)
AddHour(v, hour) == Shift("AddHour", v, hour)
AddDay(v, day) == Shift("AddDay", v, day)

\* IsLeapYearN
IsLeapYearN(v) == IsLeapYear(Year(v))

\* Zone names handed to the functions: constants of the package, the names
\* LoadLocation treats specially, and two that no zone database holds.
ZoneNames == {"", "UTC", "Local", "America/New_York", "Africa/Cairo", "Mars/Olympus", "utc+7"}

\* The longest distance tried, in years of 365 days.
MaxYears == 3

\* Distances between the reference and the clock: each threshold of the
\* switch (and each step of a printed count), one nanosecond less and one
\* second less, and the 59 s, 90 s and 25 h of the tests.
AgoThresholds ==
  {60, 90, 120, 3600, 7200, 90000} \cup
  {n * SecondsPerDay : n \in {1, 2, 7, 14, 21, 30, 60, 90, 180, 365, 730, MaxYears * 365}}

AgoDistances ==
  {[sec |-> 0, ns |-> 0]} \cup
  UNION {{[sec |-> x, ns |-> 0], [sec |-> x - 1, ns |-> NanosPerSecond - 1],
          [sec |-> x - 1, ns |-> 0]} : x \in AgoThresholds}

EntryTimes ==
  {Reference, Date(2023, 10, 25, 14, 30, 45, 100, "NewYork"),
   Date(2024, 4, 26, 1, 30, 0, 0, "Cairo")}

InitEntry ==
  /\ wrapped \in EntryTimes
  /\ weekStartDay = Sunday
  /\ timeFormats = TimeFormats
  /\ op = "" /\ res = ZeroTime
  /\ ParseIdle
  /\ HeapIdle
  /\ EnvIdle
  /\ weekdays = NoWeekdays

EntryReturns(name, r, e) ==
  /\ op = ""
  /\ op' = name /\ res' = r /\ err' = e
  /\ UNCHANGED <<wrapped, weekStartDay, timeFormats, weekdays, timeLocation, pc,
                 caller, cands, idx, setCurrentTime, onlyTimeInStr, currentTime,
                 currentLocation, value, merged, panicked, orig, heap>>

\* The clock reads `now`, d after the reference or d before it.
ClockAt(d, ahead) ==
  now' = In(IF ahead THEN Add(wrapped, d.sec, d.ns) ELSE Add(wrapped, -d.sec, -d.ns),
            "Local")

DoTimeAgo ==
  \E d \in AgoDistances, ahead \in BOOLEAN :
    /\ ClockAt(d, ahead)
    /\ EntryReturns("TimeAgo", TimeAgo(wrapped, now'), err)
    /\ UNCHANGED arg

DoTimeUntil ==
  \E d \in AgoDistances, ahead \in BOOLEAN :
    /\ ClockAt(d, ahead)
    /\ EntryReturns("TimeUntil", TimeUntil(wrapped, now'), err)
    /\ UNCHANGED arg

DoSetTimezone ==
  \E name \in ZoneNames :
    /\ arg' = name
    /\ \E r \in {SetTimezone(wrapped, name)} : EntryReturns("SetTimezone", r.now, r.err)
    /\ UNCHANGED now

DoAdjustTimezone ==
  \E name \in ZoneNames :
    /\ arg' = name
    /\ EntryReturns("AdjustTimezone", AdjustTimezone(wrapped, name), err)
    /\ UNCHANGED now

\* Counts handed to the Add functions: those of the tests, and for minutes,
\* hours and days the last count whose product fits a Duration and the first
\* that does not.
Counts(unit) ==
  {0, 1, -1, 3, -3, 5, -5, 10, -10} \cup
  (CASE unit = "AddDay" -> {106751, 106752, -106752, -106753}
     [] unit = "AddHour" -> {2562047, 2562048, -2562047, -2562048}
     [] unit = "AddMinute" -> {153722867, 153722868, -153722867, -153722868}
     [] OTHER -> {86400, -86401})

DoShift(unit) ==
  /\ op = ""
  /\ \E count \in Counts(unit) :
       /\ arg' = count
       /\ EntryReturns(unit, Shift(unit, wrapped, count), err)
       /\ UNCHANGED now

DoAddSecond == DoShift("AddSecond")
DoAddMinute == DoShift("AddMinute")
DoAddHour == DoShift("AddHour")
DoAddDay == DoShift("AddDay")

\* Years handed to IsLeapYear.
LeapYears == {-400, -100, -4, -1, 0, 1, 4, 100, 400, 1600, 1700, 1900, 1996, 2000,
              2023, 2024, 2100, 2400}

DoIsLeapYear ==
  \E year \in LeapYears :
    /\ arg' = year
    /\ EntryReturns("IsLeapYear", IsLeapYear(year), err)
    /\ UNCHANGED now

DoIsLeapYearN ==
  /\ EntryReturns("IsLeapYearN", IsLeapYearN(wrapped), err)
  /\ UNCHANGED <<now, arg>>

NextEntry ==
  \/ DoTimeAgo \/ DoTimeUntil \/ DoSetTimezone \/ DoAdjustTimezone
  \/ DoAddSecond \/ DoAddMinute \/ DoAddHour \/ DoAddDay
  \/ DoIsLeapYear \/ DoIsLeapYearN

SpecEntry == InitEntry /\ [][NextEntry]_vars

\* C22: AddDay(t, 0) returns t unchanged; for every count n,
\* AddDay(AddDay(t, n), -n) is t and AddDay(t, n) is exactly n * 24 hours
\* from t; AddSecond, AddMinute and AddHour obey the same laws in their
\* units.
ShiftOps == {"AddSecond", "AddMinute", "AddHour", "AddDay"}

C22_ShiftLaws ==
  op \in ShiftOps =>
    /\ arg = 0 => res = wrapped
    /\ Shift(op, res, -arg) = wrapped
    /\ res = AddDuration(wrapped, Times(op, arg))

\* The same laws for the counts whose product fits a Duration.
ShiftLawsInRange ==
  (op \in ShiftOps /\ Int64(Times(op, arg)) = Times(op, arg)) =>
    /\ arg = 0 => res = wrapped
    /\ Shift(op, res, -arg) = wrapped
    /\ res = AddDuration(wrapped, Times(op, arg))

\* C23: IsLeapYear(y) holds exactly when 4 divides y and either 100 does
\* not or 400 does: 2000 and 2024 are leap years, 1900, 2100 and 2023 are
\* not; IsLeapYearN(t) is IsLeapYear of the year of t.
Divides(k, y) == \E q \in -2500..2500 : y = k * q

LeapByRule(y) == Divides(4, y) /\ (~Divides(100, y) \/ Divides(400, y))

C23_LeapYear ==
  /\ op = "IsLeapYear" =>
       /\ res = LeapByRule(arg)
       /\ arg \in {2000, 2024} => res = TRUE
       /\ arg \in {1900, 2100, 2023} => res = FALSE
  /\ op = "IsLeapYearN" => res = LeapByRule(Year(wrapped))

C23_Witness ==
  op = "IsLeapYear" /\ arg = 1900 /\ res = FALSE

\* The distance from the reference back to the clock (TimeAgo) or on to it
\* (TimeUntil).
Distance == IF op = "TimeAgo" THEN Sub(now, wrapped) ELSE Sub(wrapped, now)

\* The table of C14 for a distance of d.sec whole seconds, every count a
\* truncating division of it.
Table(d, few, pre, post) ==
  LET seconds == d.sec
      minutes == d.sec \div 60
      hours == d.sec \div 3600
      days == d.sec \div 86400
  IN IF seconds < 60 THEN Sprintf(few, <<>>)
     ELSE IF minutes < 2 THEN Sprintf(pre \o "1 minute" \o post, <<>>)
     ELSE IF minutes < 60 THEN Sprintf(pre \o "%d minutes" \o post, <<minutes>>)
     ELSE IF hours < 2 THEN Sprintf(pre \o "1 hour" \o post, <<>>)
     ELSE IF hours < 24 THEN Sprintf(pre \o "%d hours" \o post, <<hours>>)
     ELSE IF days < 2 THEN Sprintf(pre \o "1 day" \o post, <<>>)
     ELSE IF days < 7 THEN Sprintf(pre \o "%d days" \o post, <<days>>)
     ELSE IF days < 14 THEN Sprintf(pre \o "1 week" \o post, <<>>)
     ELSE IF days < 30 THEN Sprintf(pre \o "%d weeks" \o post, <<days \div 7>>)
     ELSE IF days < 60 THEN Sprintf(pre \o "1 month" \o post, <<>>)
     ELSE IF days < 365 THEN Sprintf(pre \o "%d months" \o post, <<days \div 30>>)
     ELSE IF days < 730 THEN Sprintf(pre \o "1 year" \o post, <<>>)
     ELSE Sprintf(pre \o "%d years" \o post, <<days \div 365>>)

\* C14: for a reference at distance d >= 0 from the clock, TimeAgo and
\* TimeUntil return the phrase of the first matching row of the threshold
\* table, every count a truncating division (59 s, 90 s and 25 h give "just
\* now", "1 minute ago" and "1 day ago"); TimeUntil returns "in the past" for
\* every reference strictly before the clock.
C14_ThresholdTable ==
  /\ (op = "TimeAgo" /\ Distance.sec >= 0) =>
       /\ res = Table(Distance, "just now", "", " ago")
       /\ (Distance = [sec |-> 59, ns |-> 0] => res = Sprintf("just now", <<>>))
       /\ (Distance = [sec |-> 90, ns |-> 0] => res = Sprintf("1 minute ago", <<>>))
       /\ (Distance = [sec |-> 90000, ns |-> 0] => res = Sprintf("1 day ago", <<>>))
  /\ (op = "TimeUntil" /\ Distance.sec >= 0) =>
       res = Table(Distance, "in a few seconds", "in ", "")
  /\ (op = "TimeUntil" /\ Distance.sec < 0) => res = Sprintf("in the past", <<>>)

\* C27: TimeAgo maps the magnitude of now - reference through the threshold
\* table for every reference: a reference lying d ahead of the clock gets the
\* phrase TimeAgo gives a reference lying d behind it.
C27_FutureBucketedAsPast ==
  op = "TimeAgo" =>
    res = Phrase(Abs(Sub(now, wrapped)), "just now", "", " ago")

\* What the code does for a reference ahead of the clock: the signed count of
\* seconds is below 60 whatever the distance.
FutureIsJustNow ==
  (op = "TimeAgo" /\ Sub(now, wrapped).sec < 0) => res = Sprintf("just now", <<>>)

\* C18: for an unknown zone name SetTimezone returns a non-nil error and
\* AdjustTimezone returns its input unchanged, same instant and same
\* location; for a known zone both return the instant of the input in that
\* zone, SetTimezone with a nil error.
KnownZones ==
  [n \in {"", "UTC", "Local", "America/New_York", "Africa/Cairo"} |->
     CASE n = "America/New_York" -> "NewYork"
       [] n = "Africa/Cairo" -> "Cairo"
       [] n = "Local" -> "Local"
       [] OTHER -> "UTC"]

C18_Timezone ==
  op \in {"SetTimezone", "AdjustTimezone"} =>
    IF arg \in DOMAIN KnownZones
      THEN /\ Equal(res, wrapped)
           /\ Location(res) = KnownZones[arg]
           /\ op = "SetTimezone" => err = NilErr
      ELSE /\ op = "SetTimezone" => err # NilErr
           /\ op = "AdjustTimezone" => res = wrapped

C18_Witness ==
  /\ op = "AdjustTimezone" /\ arg = "America/New_York" /\ wrapped = Reference
  /\ FieldsOf(res) = <<2024, 3, 15, 6, 0, 0, 0>> /\ Location(res) = "NewYork"

-----------------------------------------------------------------------------
(* The Rule builders, and SpecRule, which chains them on one Rule.  Every   *)
(* builder has a pointer receiver c, assigns to fields of *c and returns c. *)

\* The receiver c.
RuleRef == "c"

\* No more than this many layouts are appended to a Rule.
MaxAppended == 2

\* The layouts handed to the Append builders, none of them in TimeFormats.
AppendLayouts == {TimeFormat20060102150405, TimeFormat20060102, TimeRFC07D150405}

\* How many of the layouts of f were appended.
Appended(f) == Cardinality({k \in 1..Len(f) : f[k] \in AppendLayouts})

\* The variadic arguments: no layout, one, or two.
Variadic(layouts) ==
  {<<>>} \cup {<<a>> : a \in layouts} \cup {<<a, b>> : a, b \in layouts}

InitRule ==
  /\ wrapped = ZeroTime
  /\ weekStartDay = Sunday
  /\ timeFormats = TimeFormats
  /\ op = "" /\ res = ZeroTime
  /\ ParseIdle
  /\ HeapIdle
  /\ EnvIdle
  /\ weekdays = NoWeekdays

\* `return c` of the builder `name` called with argument a.
RuleReturns(name, a) ==
  /\ pc = "idle"
  /\ op' = name /\ arg' = a /\ res' = RuleRef
  /\ UNCHANGED <<wrapped, weekdays, now>>
  /\ ParseUnchanged

DoWithWeekStartDay ==
  \E d \in {Sunday, Monday, Saturday} :
    /\ weekStartDay' = d
    /\ RuleReturns("WithWeekStartDay", d)
    /\ UNCHANGED <<timeLocation, timeFormats>>

DoWithTimeFormats ==
  \E f \in {<<>>, <<Kitchen>>, <<Kitchen, TimeFormatNano>>} :
    /\ timeFormats' = f
    /\ RuleReturns("WithTimeFormats", f)
    /\ UNCHANGED <<weekStartDay, timeLocation>>

DoWithLocation ==
  \E l \in Locations \cup {NilLocation} :
    /\ timeLocation' = l
    /\ RuleReturns("WithLocation", l)
    /\ UNCHANGED <<weekStartDay, timeFormats>>

\* c.timeLocation, _ = time.LoadLocation(string(location))
DoWithLocationRFC ==
  \E name \in ZoneNames :
    /\ timeLocation' = LoadLocation(name).loc
    /\ RuleReturns("WithLocationRFC", name)
    /\ UNCHANGED <<weekStartDay, timeFormats>>

DoApplyUTCLoc ==
  /\ timeLocation' = "UTC"
  /\ RuleReturns("ApplyUTCLoc", <<>>)
  /\ UNCHANGED <<weekStartDay, timeFormats>>

DoApplyLocalLoc ==
  /\ timeLocation' = "Local"
  /\ RuleReturns("ApplyLocalLoc", <<>>)
  /\ UNCHANGED <<weekStartDay, timeFormats>>

\* A variant that puts the new layouts in front.
AppendAll_InFront(formats, format) == format \o formats

\* Go's append of the elements of `format`, one after the other.
AppendAll(formats, format) == formats \o format

\* The three Append builders: return c at once when no layout is given,
\* append otherwise.
AppendBuilder(name, layouts) ==
  \E format \in Variadic(layouts) :
    /\ Appended(timeFormats) + Len(format) <= MaxAppended
    /\ timeFormats' = IF Len(format) = 0 THEN timeFormats
                      ELSE AppendAll(timeFormats, format)
    /\ RuleReturns(name, format)
    /\ UNCHANGED <<weekStartDay, timeLocation>>

DoAppendTimeFormat ==
  AppendBuilder("AppendTimeFormat", {TimeFormat20060102150405, TimeRFC07D150405})

DoAppendTimeFormatRFC ==
  AppendBuilder("AppendTimeFormatRFC", {TimeFormat20060102150405, TimeFormat20060102})

DoAppendTimeFormatRFCshort ==
  AppendBuilder("AppendTimeFormatRFCshort", {TimeRFC07D150405})

NextRule ==
  \/ DoWithWeekStartDay \/ DoWithTimeFormats \/ DoWithLocation \/ DoWithLocationRFC
  \/ DoApplyUTCLoc \/ DoApplyLocalLoc
  \/ DoAppendTimeFormat \/ DoAppendTimeFormatRFC \/ DoAppendTimeFormatRFCshort

SpecRule == InitRule /\ [][NextRule]_vars

\* C15: WithLocationRFC called with a zone name that cannot be loaded leaves
\* the Rule's location at the value it had before the call, changes no other
\* field and returns the same Rule.
C15_UnknownZoneKeepsLocation ==
  [][(op' = "WithLocationRFC" /\ arg' \notin DOMAIN KnownZones)
       => /\ timeLocation' = timeLocation
          /\ weekStartDay' = weekStartDay /\ timeFormats' = timeFormats
          /\ res' = RuleRef]_vars

AppendOps == {"AppendTimeFormat", "AppendTimeFormatRFC", "AppendTimeFormatRFCshort"}

\* C16: every Rule builder named below returns the same Rule and changes
\* only its own field; WithTimeFormats replaces the layouts wholesale; the
\* Append builders add their arguments in order after the layouts already
\* there, and change nothing when called without arguments.
C16_Builders ==
  [][/\ op' \in {"WithWeekStartDay", "WithTimeFormats", "WithLocation", "ApplyUTCLoc",
                 "ApplyLocalLoc"} \cup AppendOps => res' = RuleRef
     /\ op' = "WithWeekStartDay" =>
          /\ weekStartDay' = arg'
          /\ timeLocation' = timeLocation /\ timeFormats' = timeFormats
     /\ op' = "WithTimeFormats" =>
          /\ timeFormats' = arg'
          /\ weekStartDay' = weekStartDay /\ timeLocation' = timeLocation
     /\ op' \in {"WithLocation", "ApplyUTCLoc", "ApplyLocalLoc"} =>
          /\ timeLocation' = (CASE op' = "WithLocation" -> arg'
                                [] op' = "ApplyUTCLoc" -> "UTC"
                                [] op' = "ApplyLocalLoc" -> "Local")
          /\ weekStartDay' = weekStartDay /\ timeFormats' = timeFormats
     /\ op' \in AppendOps =>
          /\ Len(timeFormats') = Len(timeFormats) + Len(arg')
          /\ SubSeq(timeFormats', 1, Len(timeFormats)) = timeFormats
          /\ \A k \in 1..Len(arg') : timeFormats'[Len(timeFormats) + k] = arg'[k]
          /\ weekStartDay' = weekStartDay /\ timeLocation' = timeLocation]_vars

\* Two layouts appended, in the order given, after a layout appended before.
C16_Witness ==
  /\ op = "AppendTimeFormatRFC"
  /\ arg = <<TimeFormat20060102150405, TimeFormat20060102>>
  /\ timeFormats = TimeFormats \o arg
  /\ res = RuleRef

-----------------------------------------------------------------------------
(* Rule.Parse, and SpecRuleParse: a Rule fresh from NewRule, any calls of   *)
(* the builders that set its location, then one Rule.Parse.                *)

\* No more than this many strings are handed to Rule.Parse.
MaxRuleCands == 1

\* What time.Now() reads: a time in the process-local zone.
Clocks == {In(Reference, "Local"), Date(2024, 4, 26, 8, 30, 15, 500, "Local")}

\* A variant that wraps time.Now() as it is, whatever the Rule's location.
RuleReference_Local(location, clock) == clock

\* The time Rule.Parse wraps: time.Now(), moved to the Rule's location when
\* the Rule has one.
RuleReference(location, clock) ==
  IF location = NilLocation THEN clock ELSE In(clock, location)

DoRuleParse ==
  \E s \in ListsUpTo(MaxRuleCands), clock \in Clocks :
    \E t \in {RuleReference(timeLocation, clock)} :
      /\ now' = clock
      /\ wrapped' = t
      /\ ParseVars("Rule.Parse", s, t)
      /\ UNCHANGED <<orig, heap>>

NextRuleParse ==
  \/ DoWithLocation \/ DoWithLocationRFC \/ DoApplyUTCLoc \/ DoApplyLocalLoc
  \/ DoRuleParse \/ ParseIter \/ ParseReturn

SpecRuleParse == InitRule /\ [][NextRuleParse]_vars

-----------------------------------------------------------------------------
(* SpecShare: the Rules that NewRule makes and the package variable          *)
(* TimeFormats, their layout slices laid over backing arrays as Go lays      *)
(* them: a slice is a header (array, len, cap), and append writes into the   *)
(* array of its argument when the capacity allows.                           *)

MaxRules == 2

\* What the specifications of one Timex leave alone.
TimexUnchanged ==
  UNCHANGED <<wrapped, weekStartDay, timeFormats, res, pc, caller, cands, idx,
              setCurrentTime, onlyTimeInStr, currentTime, currentLocation, value,
              err, merged, panicked, orig, weekdays, timeLocation, now>>

TimexIdle ==
  /\ wrapped = ZeroTime /\ weekStartDay = Sunday /\ timeFormats = <<>>
  /\ op = "" /\ res = ZeroTime
  /\ ParseIdle
  /\ EnvIdle
  /\ weekdays = NoWeekdays

\* s[0], ..., s[len(s) - 1]: what a range over the slice s sees.
Layouts(st, s) == IF s.len = 0 THEN <<>> ELSE SubSeq(st[s.array], 1, s.len)

\* The capacity append asks for when cap(s) < newLen: twice the old one, or
\* newLen when that is more (the allocator may round it up further).
GrowCap(oldCap, newLen) == IF newLen > 2 * oldCap THEN newLen ELSE 2 * oldCap

\* append(s, format...): in place, past len(s), when cap(s) holds the result;
\* in a new array otherwise, s[0 .. len(s) - 1] copied over.
GoAppend(st, s, format) ==
  Let(s.len + Len(format), LAMBDA newLen :
    IF newLen <= s.cap
      THEN [store |-> [st EXCEPT ![s.array] =
                         [k \in 1..s.cap |->
                            IF k > s.len /\ k <= newLen THEN format[k - s.len]
                            ELSE st[s.array][k]]],
            slice |-> [s EXCEPT !.len = newLen]]
    ELSE [store |-> Append(st,
                      [k \in 1..GrowCap(s.cap, newLen) |->
                         IF k <= s.len THEN st[s.array][k]
                         ELSE IF k <= newLen THEN format[k - s.len]
                         ELSE <<>>]),
          slice |-> [array |-> Len(st) + 1, len |-> newLen,
                     cap |-> GrowCap(s.cap, newLen)]])

\* for _, f := range format { s = append(s, string(f)) }
RECURSIVE AppendEach(_, _, _)
AppendEach(st, s, format) ==
  IF format = <<>> THEN [store |-> st, slice |-> s]
  ELSE Let(GoAppend(st, s, <<Head(format)>>), LAMBDA r :
         AppendEach(r.store, r.slice, Tail(format)))

\* The arrays that a slice header or an access of a call in flight refers
\* to, x being the store, the package variables, the Rules and the calls.
Live(x) ==
  ({x.defaults.TimeFormats.array}
     \cup {x.rules[c].timeFormats.array : c \in DOMAIN x.rules}
     \cup {x.running[g].h.array : g \in DOMAIN x.running}
     \cup {a.array : a \in UNION {x.running[g].done : g \in DOMAIN x.running}}) \ {0}

\* The garbage collector: the arrays nothing refers to are gone, and the
\* others are numbered by age.
Collected(x) ==
  Let(Live(x), LAMBDA live :
    LET rank(id) == IF id = 0 THEN 0 ELSE Cardinality({k \in live : k <= id})
        moved(h) == [h EXCEPT !.array = rank(h.array)]
    IN [store |-> [k \in 1..Cardinality(live) |->
                     x.store[CHOOSE id \in live : rank(id) = k]],
        defaults |-> [x.defaults EXCEPT !.TimeFormats = moved(x.defaults.TimeFormats)],
        rules |-> [c \in DOMAIN x.rules |->
                     [x.rules[c] EXCEPT !.timeFormats = moved(x.rules[c].timeFormats)]],
        running |-> [g \in DOMAIN x.running |->
                       [x.running[g] EXCEPT
                          !.h = moved(x.running[g].h),
                          !.done = {[a EXCEPT !.array = rank(a.array)] :
                                      a \in x.running[g].done}]]])

Becomes(x) ==
  /\ store' = x.store /\ defaults' = x.defaults
  /\ rules' = x.rules /\ running' = x.running

\* The slice literal of const.go: as long as its array.
InitShare ==
  /\ TimexIdle
  /\ store = <<TimeFormats>>
  /\ defaults = [WeekStartDay |-> Sunday,
                 TimeFormats |-> [array |-> 1, len |-> Len(TimeFormats),
                                  cap |-> Len(TimeFormats)]]
  /\ rules = <<>>
  /\ running = <<>>

\* NewRule(): the Rule takes the header of TimeFormats as it is.
ShareNewRule ==
  /\ Len(rules) < MaxRules
  /\ op' = "NewRule" /\ arg' = [rule |-> Len(rules) + 1, format |-> <<>>]
  /\ rules' = Append(rules, [weekStartDay |-> defaults.WeekStartDay,
                             timeLocation |-> NilLocation,
                             timeFormats |-> defaults.TimeFormats])
  /\ UNCHANGED <<store, defaults, running>>
  /\ TimexUnchanged

\* A builder of Rule number c that appends `format`, `r` being what its
\* appends come to.
ShareAppends(name, c, format, r) ==
  /\ rules[c].timeFormats.len + Len(format) <= Len(TimeFormats) + MaxAppended
  /\ op' = name /\ arg' = [rule |-> c, format |-> format]
  /\ IF format = <<>> THEN UNCHANGED heap
     ELSE Becomes(Collected([store |-> r.store, defaults |-> defaults,
                             rules |-> [rules EXCEPT ![c].timeFormats = r.slice],
                             running |-> running]))
  /\ TimexUnchanged

ShareAppendTimeFormat ==
  \E c \in DOMAIN rules :
    \E format \in Variadic({TimeFormat20060102150405}) :
      ShareAppends("AppendTimeFormat", c, format,
                   GoAppend(store, rules[c].timeFormats, format))

ShareAppendTimeFormatRFC ==
  \E c \in DOMAIN rules :
    \E format \in Variadic({TimeFormat20060102}) :
      ShareAppends("AppendTimeFormatRFC", c, format,
                   AppendEach(store, rules[c].timeFormats, format))

ShareAppendTimeFormatRFCshort ==
  \E c \in DOMAIN rules :
    \E format \in Variadic({TimeRFC07D150405}) :
      ShareAppends("AppendTimeFormatRFCshort", c, format,
                   AppendEach(store, rules[c].timeFormats, format))

\* timefy.TimeFormats = append(timefy.TimeFormats, layout), as the README
\* has it.
ShareAppendDefault ==
  \E layout \in {TimeRFC07D150405} :
    /\ defaults.TimeFormats.len + 1 <= Len(TimeFormats) + MaxAppended
    /\ op' = "append" /\ arg' = [rule |-> 0, format |-> <<layout>>]
    /\ LET r == GoAppend(store, defaults.TimeFormats, <<layout>>)
       IN Becomes(Collected([store |-> r.store,
                             defaults |-> [defaults EXCEPT !.TimeFormats = r.slice],
                             rules |-> rules, running |-> running]))
    /\ TimexUnchanged

NextShare ==
  \/ ShareNewRule
  \/ ShareAppendTimeFormat \/ ShareAppendTimeFormatRFC \/ ShareAppendTimeFormatRFCshort
  \/ ShareAppendDefault

SpecShare == InitShare /\ [][NextShare]_vars

RuleAppends == {"AppendTimeFormat", "AppendTimeFormatRFC", "AppendTimeFormatRFCshort"}

\* C29: Rules do not share mutable layout storage.  Whatever the order of
\* NewRule, the Append builders on different Rules and appends to the default
\* list, a step changes the layouts a Rule sees only when it is an Append
\* builder of that Rule, and the layouts of the default list only when it is
\* an append to the default list.
C29_NoSharedLayoutStorage ==
  [][/\ \A c \in DOMAIN rules :
          \/ op' \in RuleAppends /\ arg'.rule = c
          \/ Layouts(store', rules'[c].timeFormats) = Layouts(store, rules[c].timeFormats)
     /\ op' # "append" =>
          Layouts(store', defaults'.TimeFormats) = Layouts(store, defaults.TimeFormats)]_vars

\* What does hold: a step changes none of the layouts a Rule or the default
\* list had before its own last append.
KeepsOlderLayouts ==
  [][/\ \A c \in DOMAIN rules :
          \A k \in 1..Len(TimeFormats) :
            Layouts(store', rules'[c].timeFormats)[k] = TimeFormats[k]
     /\ \A k \in 1..Len(TimeFormats) :
          Layouts(store', defaults'.TimeFormats)[k] = TimeFormats[k]]_vars

-----------------------------------------------------------------------------
(* SpecUse: goroutines that share one Rule, made by NewRule, and the        *)
(* package variables.  A call is the sequence of its accesses to the        *)
(* Rule's fields, to the package variables and to the backing arrays; a     *)
(* goroutine makes them one at a time, with no synchronisation, and the     *)
(* accesses of the calls in flight are kept to tell which of them conflict. *)

\* Two goroutines: a conflict is between two calls.
Goroutines == {1, 2}

NilSlice == [array |-> 0, len |-> 0, cap |-> 0]

\* No call in flight.  n is the number of strings or layouts the call was
\* given, h the slice header it holds in a local, done its accesses so far.
Idle == [op |-> "", n |-> 0, pos |-> 0, h |-> NilSlice, done |-> {}]

Read(loc) == [do |-> "read", loc |-> loc]
Write(loc) == [do |-> "write", loc |-> loc]
Range == [do |-> "range", loc |-> "[]string"]
AppendOne == [do |-> "append", loc |-> "[]string"]

\* Timex.Parse: nothing of the Rule without a candidate; with one,
\* parseWithFormat ranges over t.timeFormats.
ParseAccesses(n) ==
  IF n = 0 THEN <<>> ELSE <<Read("Rule.timeFormats"), Range>>

\* A Rule.Parse that stores the location it used.
RuleParseAccesses_KeepsLocation(n) ==
  <<Read("Rule.timeLocation"), Write("Rule.timeLocation")>> \o ParseAccesses(n)

\* Rule.Parse and Rule.MustParse of a Rule that has a location: the nil
\* test, then c.timeLocation again for In, then With and Parse.
RuleParseAccesses(n) ==
  <<Read("Rule.timeLocation"), Read("Rule.timeLocation")>> \o ParseAccesses(n)

\* The calls that configure nothing, and what they touch.
ReadOnlyCalls ==
  {"Rule.With", "Rule.Parse", "Rule.MustParse", "New", "With",
   "BeginningOfDay", "BeginningOfWeek", "EndOfWeek", "EndOfMonth", "Monday", "Sunday",
   "Quarter", "Parse", "MustParse", "Between", "TimeAgo", "TimeUntil"}

\* The builders of the Rule and the assignments to the package variables.
WritingCalls ==
  {"WithWeekStartDay", "WithLocation", "ApplyUTCLoc", "AppendTimeFormat",
   "WeekStartDay =", "TimeFormats = append"}

\* The calls that take strings or layouts, none or one of them here.
Variadics ==
  {"Rule.Parse", "Rule.MustParse", "Monday", "Sunday", "Parse", "MustParse",
   "AppendTimeFormat"}

Accesses(call, n) ==
  CASE call \in {"Rule.Parse", "Rule.MustParse"} -> RuleParseAccesses(n)
    [] call \in {"Parse", "MustParse", "Monday", "Sunday"} -> ParseAccesses(n)
    [] call = "Between" -> ParseAccesses(1) \o ParseAccesses(1)
    [] call \in {"BeginningOfWeek", "EndOfWeek"} -> <<Read("Rule.weekStartDay")>>
    [] call \in {"New", "With"} -> <<Read("WeekStartDay"), Read("TimeFormats")>>
    [] call = "WithWeekStartDay" -> <<Write("Rule.weekStartDay")>>
    [] call \in {"WithLocation", "ApplyUTCLoc"} -> <<Write("Rule.timeLocation")>>
    [] call = "AppendTimeFormat" ->
         IF n = 0 THEN <<>>
         ELSE <<Read("Rule.timeFormats"), AppendOne, Write("Rule.timeFormats")>>
    [] call = "WeekStartDay =" -> <<Write("WeekStartDay")>>
    [] call = "TimeFormats = append" ->
         <<Read("TimeFormats"), AppendOne, Write("TimeFormats")>>
    [] OTHER -> <<>>

\* An access to a field or a package variable, and one to the cells
\* from..to of a backing array.
Variable(loc, write) ==
  [loc |-> loc, array |-> 0, from |-> 0, to |-> 0, write |-> write]

Cells(array, from, to, write) ==
  [loc |-> "[]string", array |-> array, from |-> from, to |-> to, write |-> write]

\* The Rule and the package variables once configuration is over: a Rule
\* fresh from NewRule; the same after the README's append to TimeFormats;
\* a Rule that appended a layout of its own.  The Rule has had ApplyUTCLoc.
Configured ==
  Let([array |-> 1, len |-> Len(TimeFormats), cap |-> Len(TimeFormats)], LAMBDA lit :
    Let(GoAppend(<<TimeFormats>>, lit, <<TimeFormat20060102>>), LAMBDA r :
      {[store |-> <<TimeFormats>>, default |-> lit, rule |-> lit],
       [store |-> r.store, default |-> r.slice, rule |-> r.slice],
       [store |-> r.store, default |-> lit, rule |-> r.slice]}))

InitUse ==
  /\ TimexIdle
  /\ \E c \in Configured :
       \E x \in {Collected([store |-> c.store,
                             defaults |-> [WeekStartDay |-> Sunday,
                                           TimeFormats |-> c.default],
                             rules |-> <<[weekStartDay |-> Sunday, timeLocation |-> "UTC",
                                          timeFormats |-> c.rule]>>,
                             running |-> [g \in Goroutines |-> Idle]])} :
         /\ store = x.store /\ defaults = x.defaults
         /\ rules = x.rules /\ running = x.running

UseUnchanged == UNCHANGED <<op, arg>> /\ TimexUnchanged

MaxDefaultAppends == 1

\* How many calls of `call` in flight were given a layout to append.
Appending(call) ==
  Cardinality({g \in Goroutines : running[g].op = call /\ running[g].n = 1})

\* A goroutine enters a call.
UseCall ==
  \E g \in Goroutines, call \in ReadOnlyCalls \cup WritingCalls, n \in 0..1 :
    /\ running[g] = Idle
    /\ n = 1 \/ call \in Variadics
    /\ call = "AppendTimeFormat" =>
         rules[1].timeFormats.len + Appending(call) + 1 <= Len(TimeFormats) + MaxAppended
    /\ call = "TimeFormats = append" =>
         defaults.TimeFormats.len + Appending(call) + 1
           <= Len(TimeFormats) + MaxDefaultAppends
    /\ running' = [running EXCEPT ![g] = [Idle EXCEPT !.op = call, !.n = n]]
    /\ UNCHANGED <<store, defaults, rules>>
    /\ UseUnchanged

\* The next access of the call of g, with what it does to what it touches.
\* The builders and the assignments are given time.Sunday, time.UTC and the
\* layout "2006-01-02".
Accessed(g) ==
  LET r == running[g]
      step == Accesses(r.op, r.n)[r.pos + 1]
      grown == GoAppend(store, r.h, <<TimeFormat20060102>>)
      advanced(a, h) ==
        [running EXCEPT ![g] = [r EXCEPT !.pos = r.pos + 1, !.done = r.done \cup a,
                                         !.h = h]]
      here == [store |-> store, defaults |-> defaults, rules |-> rules,
              running |-> running]
  IN CASE step.do = "read" ->
            [here EXCEPT !.running =
               advanced({Variable(step.loc, FALSE)},
                        IF step.loc = "Rule.timeFormats" THEN rules[1].timeFormats
                        ELSE IF step.loc = "TimeFormats" THEN defaults.TimeFormats
                        ELSE r.h)]
       [] step.do = "range" ->
            [here EXCEPT !.running =
               advanced(IF r.h.len = 0 THEN {}
                        ELSE {Cells(r.h.array, 1, r.h.len, FALSE)}, r.h)]
       [] step.do = "append" ->
            [here EXCEPT !.store = grown.store,
                        !.running =
                          advanced(IF r.h.len < r.h.cap
                                     THEN {Cells(r.h.array, r.h.len + 1, r.h.len + 1, TRUE)}
                                   ELSE IF r.h.len = 0 THEN {}
                                   ELSE {Cells(r.h.array, 1, r.h.len, FALSE)},
                                   grown.slice)]
       [] step.do = "write" ->
            [here EXCEPT
               !.running = advanced({Variable(step.loc, TRUE)}, r.h),
               !.rules =
                 [rules EXCEPT ![1] =
                    CASE step.loc = "Rule.weekStartDay" -> [@ EXCEPT !.weekStartDay = Sunday]
                      [] step.loc = "Rule.timeLocation" -> [@ EXCEPT !.timeLocation = "UTC"]
                      [] step.loc = "Rule.timeFormats" -> [@ EXCEPT !.timeFormats = r.h]
                      [] OTHER -> @],
               !.defaults =
                 CASE step.loc = "WeekStartDay" -> [defaults EXCEPT !.WeekStartDay = Sunday]
                   [] step.loc = "TimeFormats" -> [defaults EXCEPT !.TimeFormats = r.h]
                   [] OTHER -> defaults]

\* One access of a call in flight.
UseAccess ==
  \E g \in Goroutines :
    /\ running[g].op # ""
    /\ running[g].pos < Len(Accesses(running[g].op, running[g].n))
    /\ Becomes(Collected(Accessed(g)))
    /\ UseUnchanged

\* The call returns.
UseReturn ==
  \E g \in Goroutines :
    /\ running[g].op # ""
    /\ running[g].pos = Len(Accesses(running[g].op, running[g].n))
    /\ Becomes(Collected([store |-> store, defaults |-> defaults, rules |-> rules,
                          running |-> [running EXCEPT ![g] = Idle]]))
    /\ UseUnchanged

NextUse == UseCall \/ UseAccess \/ UseReturn

SpecUse == InitUse /\ [][NextUse]_vars

\* Two accesses conflict when they touch the same variable or overlapping
\* cells of one array and one of them writes.
Conflict(a, b) ==
  /\ a.loc = b.loc /\ a.array = b.array
  /\ a.from <= b.to /\ b.from <= a.to
  /\ a.write \/ b.write

\* The calls in flight of g and h have made conflicting accesses.
Races(g, h) ==
  g # h /\ \E a \in running[g].done, b \in running[h].done : Conflict(a, b)

\* C28: once configuration has finished, a goroutine that runs Rule.With,
\* Rule.Parse or an operation of a Timex writes none of the Rule's fields,
\* the default layout list or the default week start day, whatever the other
\* goroutines run; two calls in flight conflict only when one of them is a
\* builder or an assignment to the defaults.
C28_ReadOnlyUseHasNoConflict ==
  /\ \A g \in Goroutines :
       running[g].op \in ReadOnlyCalls => \A a \in running[g].done : ~a.write
  /\ \A g, h \in Goroutines :
       Races(g, h) => running[g].op \in WritingCalls \/ running[h].op \in WritingCalls

\* Rule.Parse and Parse of a Timex of the same Rule, both past ranging over
\* the same layouts, without a conflict.
C28_Witness ==
  /\ running[1].op = "Rule.Parse" /\ running[1].pos = 4
  /\ running[2].op = "Parse" /\ running[2].pos = 2
  /\ running[1].done \cap running[2].done # {}
  /\ ~Races(1, 2)

\* A builder in flight next to Parse: the conflict the design leaves to the
\* caller.
RaceWithBuilder ==
  /\ running[1].op = "Parse" /\ running[2].op = "AppendTimeFormat"
  /\ Races(1, 2)

====
